---------------------------- MODULE Spec2Model ----------------------------
(***************************************************************************)
(* API Harmony Lite: the OpenAPI specification ingestion pipeline.         *)
(*                                                                         *)
(*   - src/src/components/openapi-upload-form.tsx  (OpenApiUploadForm,     *)
(*     onSubmit: the load operation, URL import and file upload)           *)
(*   - src/src/app/api/fetch-spec/route.ts         (POST: the URL proxy)   *)
(*   - src/unnamed/part_001                        (POST: the URL proxy,   *)
(*     the revision that validates and retries)                            *)
(*                                                                         *)
(* JavaScript strings are sequences of UTF-16 code units, written here as  *)
(* sequences of character codes ("3" is 51, "." is 46, "0" is 48), so that *)
(* startsWith and the relational operators on strings are computed the way *)
(* the engine computes them.  Messages are sequences of tokens.            *)
(***************************************************************************)
EXTENDS Integers, Sequences, FiniteSets, TLC

\* Highest patch number n of the version strings "3.0.n" and "3.1.n" drawn as inputs.
MaxPatch == 99

-----------------------------------------------------------------------------
(* Strings *)

\* String(n) for 0 <= n <= 999.
DigitStr(n) ==
  IF n < 10 THEN << 48 + n >>
  ELSE IF n < 100 THEN << 48 + (n \div 10), 48 + (n % 10) >>
  ELSE << 48 + (n \div 100), 48 + ((n \div 10) % 10), 48 + (n % 10) >>

\* The string `${major}.${minor}.${patch}`.
VersionStr(major, minor, patch) ==
  << 48 + major, 46, 48 + minor, 46 >> \o DigitStr(patch)

\* The literal '3.0.' of the startsWith test.
Str30Dot == << 51, 46, 48, 46 >>

\* The literal '3.0.3'.
Str303 == << 51, 46, 48, 46, 51 >>

\* The literal "2.0".
Str20 == << 50, 46, 48 >>

\* String.prototype.startsWith
StartsWith(s, p) == Len(s) >= Len(p) /\ SubSeq(s, 1, Len(p)) = p

\* a < b on two strings: the comparison of their code units, left to right,
\* a proper prefix being the smaller.
StrLess(a, b) ==
  \E i \in 1..(Len(b)) :
     /\ i <= Len(a) + 1
     /\ \A j \in 1..(i - 1) : a[j] = b[j]
     /\ \/ i = Len(a) + 1
        \/ i <= Len(a) /\ a[i] < b[i]

\* a > b on two strings.
StrGreater(a, b) == StrLess(b, a)

-----------------------------------------------------------------------------
(* Values of a parsed document *)

\* A property of a parsed object: absent, a string, or a number
\* (YAML reads `openapi: 3.0` as the number 3).
Absent == [t |-> "absent", s |-> << >>]
StrField(s) == [t |-> "str", s |-> s]
NumField == [t |-> "num", s |-> << >>]
\* A property that is an array holding one string (openapi: ["3.0.4"]): not
\* of type string, and printed as the string it holds.
ArrField(s) == [t |-> "arr", s |-> s]

\* JavaScript truthiness of a property value (the numbers drawn are non-zero).
Truthy(f) ==
  CASE f.t = "absent" -> FALSE
    [] f.t = "str" -> f.s # << >>
    [] OTHER -> TRUE

\* A JavaScript value as the parsers return it.  kind is one of "undefined",
\* "null", "number", "string", "object"; an object carries its `swagger` and
\* `openapi` properties and `body`, the rest of its content.  `stage` records
\* which step of the pipeline produced the tree.
Obj(swagger, openapi, body) ==
  [kind |-> "object", swagger |-> swagger, openapi |-> openapi,
   body |-> body, stage |-> "parsed"]
Scalar(kind) ==
  [kind |-> kind, swagger |-> Absent, openapi |-> Absent,
   body |-> 0, stage |-> "parsed"]

-----------------------------------------------------------------------------
(* Version Normalizer *)

\* The test of the override: a truthy string that starts with '3.0.' and
\* compares greater than '3.0.3'.
ShouldOverrideEq(openapi) ==
  /\ Truthy(openapi)
  /\ openapi.t = "str"
  /\ StartsWith(openapi.s, Str30Dot)
  /\ ~StrLess(openapi.s, Str303)

ShouldOverride(openapi) ==
  /\ Truthy(openapi)
  /\ openapi.t = "str"
  /\ StartsWith(openapi.s, Str30Dot)
  /\ StrGreater(openapi.s, Str303)

\* route.ts: if (parsedSpec.openapi && ... ) { parsedSpec.openapi = '3.0.3';
\* versionOverridden = true }
NormalizeRoute(parsedSpec) ==
  IF ShouldOverride(parsedSpec.openapi)
  THEN [doc |-> [parsedSpec EXCEPT !.openapi = StrField(Str303), !.stage = "normalized"],
        versionOverridden |-> TRUE]
  ELSE [doc |-> [parsedSpec EXCEPT !.stage = "normalized"],
        versionOverridden |-> FALSE]


\* part_001: the same test with its conjuncts in another order.
NormalizePart001(parsedSpec) ==
  IF /\ Truthy(parsedSpec.openapi)
     /\ parsedSpec.openapi.t = "str"
     /\ StrGreater(parsedSpec.openapi.s, Str303)
     /\ StartsWith(parsedSpec.openapi.s, Str30Dot)
  THEN [doc |-> [parsedSpec EXCEPT !.openapi = StrField(Str303), !.stage = "normalized"],
        versionOverridden |-> TRUE]
  ELSE [doc |-> [parsedSpec EXCEPT !.stage = "normalized"],
        versionOverridden |-> FALSE]

\* openapi-upload-form.tsx: the same test on parsedContentForFile; the caller
\* has already read parsedContentForFile.openapi (originalVersionFromFile).
NormalizeFile(parsedContentForFile) ==
  IF ShouldOverride(parsedContentForFile.openapi)
  THEN [doc |-> [parsedContentForFile EXCEPT !.openapi = StrField(Str303),
                                             !.stage = "normalized"],
        versionOverridden |-> TRUE]
  ELSE [doc |-> [parsedContentForFile EXCEPT !.stage = "normalized"],
        versionOverridden |-> FALSE]

\* The normalizer of one ingestion path.
Normalize(path, doc) ==
  CASE path = "route" -> NormalizeRoute(doc)
    [] path = "part_001" -> NormalizePart001(doc)
    [] OTHER -> NormalizeFile(doc)

Paths == {"route", "part_001", "file"}

-----------------------------------------------------------------------------
(* Texts and the two parsers *)

\* The outcome of a parser on a text: a value, or an exception.
Returned(v) == [ok |-> TRUE, v |-> v]
Threw == [ok |-> FALSE, v |-> Scalar("undefined")]

\* A text, by what the two parsers make of it:
\*   "yaml"     YAML that is not JSON: YAML.load returns v, JSON.parse throws;
\*   "json"     JSON, which is YAML too: both return v;
\*   "jsonDup"  JSON that js-yaml refuses (a mapping key written twice, of which
\*              JSON.parse keeps the last): YAML.load throws, JSON.parse returns v;
\*   "garbage"  neither.
Text(form, v) == [form |-> form, v |-> v]

YAMLload(text) ==
  IF text.form \in {"yaml", "json"} THEN Returned(text.v) ELSE Threw

JSONparse(text) ==
  IF text.form \in {"json", "jsonDup"} THEN Returned(text.v) ELSE Threw

\* typeof v !== 'object' || v === null || (!v.swagger && !v.openapi), negated.
Acceptable(v) ==
  /\ v.kind = "object"
  /\ Truthy(v.swagger) \/ Truthy(v.openapi)

-----------------------------------------------------------------------------
(* Messages and exceptions *)

\* A token of a message: a piece of text `s` of `n` characters; `cut` marks
\* a piece that substring() has cut short (n is then what is left of it).
T(s, n) == [s |-> s, n |-> n, cut |-> FALSE]

\* The number of characters of a message.
RECURSIVE CharLen(_)
CharLen(message) ==
  IF message = << >> THEN 0 ELSE Head(message).n + CharLen(Tail(message))

\* message.substring(0, k)
RECURSIVE Substring0(_, _)
Substring0(message, k) ==
  IF message = << >> \/ k <= 0 THEN << >>
  ELSE IF Head(message).n <= k
       THEN << Head(message) >> \o Substring0(Tail(message), k - Head(message).n)
       ELSE << [Head(message) EXCEPT !.n = k, !.cut = TRUE] >>

\* An Error: its message, a sequence of tokens, and `ver`, the version string
\* the message quotes after "Unsupported OpenAPI version: " (<< >> if none).
Err(message) == [message |-> message, ver |-> << >>]
NoErr == Err(<< >>)

\* String.prototype.includes and startsWith for a phrase that the messages
\* below keep as one whole token.
Includes(message, phrase) ==
  \E i \in 1..Len(message) : message[i].s = phrase /\ ~message[i].cut
StartsWithPhrase(message, phrase) ==
  Len(message) > 0 /\ message[1].s = phrase /\ ~message[1].cut

-----------------------------------------------------------------------------
(* SwaggerParser (third party), by the outcomes a call can have *)

SupportedVersions == { VersionStr(3, 0, n) : n \in 0..3 }

\* The outcomes SwaggerParser.bundle / SwaggerParser.validate can have on a
\* value: "ok"; "unsupported" (Unsupported OpenAPI version: ...);
\* "notDefinition" (... is not a valid Openapi API definition); "invalid" (any
\* other rejection: schema violations, an unresolvable $ref, an unreadable
\* path).  A string is taken as the path or URL of a definition to read.
\* Releases differ on 3.1.x.
LibOutcomes(v) ==
  CASE v.kind = "string" -> {"ok", "invalid"}
    [] v.kind # "object" -> {"invalid"}
    [] Truthy(v.swagger) ->
         IF v.swagger = StrField(Str20) THEN {"ok", "invalid"} ELSE {"invalid"}
    [] v.openapi.t = "absent" -> {"notDefinition"}
    [] v.openapi.t = "num" -> {"invalid"}
    [] v.openapi.t = "arr" -> {"unsupported"}
    [] v.openapi.s \in SupportedVersions -> {"ok", "invalid"}
    [] StartsWith(v.openapi.s, << 51, 46, 49, 46 >>) -> {"ok", "invalid", "unsupported"}
    [] OTHER -> {"unsupported"}

\* The document a successful call returns: the tree it was given, bundled, or
\* the bundled definition read from the path it was given.
LibResult(v) ==
  IF v.kind = "string"
  THEN [Obj(Absent, StrField(Str303), 0) EXCEPT !.stage = "bundled"]
  ELSE [v EXCEPT !.stage = "bundled"]

\* The Error a failed call throws.
LibError(v, outcome) ==
  CASE outcome = "unsupported" ->
         [message |-> << T("Unsupported OpenAPI version", 27), T(": ", 2),
                         T(ToString(v.openapi.s), Len(v.openapi.s)),
                         T(". Swagger Parser only supports versions 3.0.0, 3.0.1, 3.0.2, 3.0.3", 66) >>,
          ver |-> v.openapi.s]
    [] outcome = "notDefinition" ->
         Err(<< T("[object Object] is not a valid Openapi API definition", 53) >>)
    [] OTHER -> Err(<< T("Swagger schema validation failed.", 33) >>)

\* YAML.dump(doc): the YAML text of a document.
YAMLdump(doc) == [yamlOf |-> doc]
NoText == [yamlOf |-> Scalar("undefined")]

-----------------------------------------------------------------------------
(* The external server's answer to the proxy's fetch *)

\* An answer: `net` is "reject" when fetch itself fails; otherwise the status,
\* the content-type header ("null" when there is none), the kind of body of an
\* error answer ("html", "jsonMessage", "jsonError", "jsonOther", "text",
\* "empty") and, for a 2xx answer, the text of the body.
Answer(net, status, ctype, body, text) ==
  [net |-> net, status |-> status, ctype |-> ctype, body |-> body, text |-> text]

IsOk(status) == status >= 200 /\ status <= 299

StatusTok(status) == T(ToString(status), 3)
StatusText(status) ==
  CASE status = 404 -> T("Not Found", 9)
    [] status = 500 -> T("Internal Server Error", 21)
    [] status = 502 -> T("Bad Gateway", 11)
    [] OTHER -> T("OK", 2)
CtypeTok(ctype) ==
  CASE ctype = "text/html" -> T(ctype, 9)
    [] ctype = "application/json" -> T(ctype, 16)
    [] ctype = "application/octet-stream" -> T(ctype, 24)
    [] OTHER -> T("null", 4)

\* The number of characters of an error body of each kind.
BodyLen(body) ==
  CASE body = "html" -> 180
    [] body = "jsonMessage" -> 24
    [] body = "jsonError" -> 22
    [] body = "jsonOther" -> 2
    [] body = "text" -> 40
    [] OTHER -> 0

\* responseBodyText.substring(0, k) of an error body.
Preview(body, k) ==
  IF BodyLen(body) <= k
  THEN IF BodyLen(body) = 0 THEN << >> ELSE << T(body, BodyLen(body)) >>
  ELSE << [s |-> body, n |-> k, cut |-> TRUE] >>

\* part_001, lines 25-49 (and route.ts, lines 42-59): the message thrown for
\* a non-2xx answer, by content type.
Part001NonOkMessage(specUrl, a) ==
  LET html == a.ctype = "text/html"
      json == a.ctype = "application/json"
      nonEmpty == BodyLen(a.body) > 0
  IN
  CASE json ->
         CASE a.body = "jsonMessage" -> << T("ext.message", 11) >>
           [] a.body = "jsonError" -> << T("ext.error", 9) >>
           [] a.body = "jsonOther" ->
                << T("External server", 15), T(" (at ", 5) >> \o specUrl \o
                << T(") returned status ", 18), StatusTok(a.status),
                   T(" with a JSON error response that does not conform to expected {message: ...} or {error: ...} structure. Raw error preview: ", 123) >> \o
                Preview(a.body, 100) \o << T("...", 3) >>
           [] OTHER ->
                << T("External server", 15), T(" (at ", 5) >> \o specUrl \o
                << T(") returned status ", 18), StatusTok(a.status),
                   T(", claimed JSON error response, but parsing failed. Raw response preview: ", 73) >> \o
                Preview(a.body, 100) \o << T("...", 3) >>
    [] html ->
         << T("Failed to fetch spec. External server at ", 41) >> \o specUrl \o
         << T(" returned an HTML page (status ", 31), StatusTok(a.status), T(" ", 1),
            StatusText(a.status),
            T("). This could be an error page, authentication prompt, or a misconfigured URL.", 78) >>
    [] nonEmpty ->
         << T("Failed to fetch spec. External server at ", 41) >> \o specUrl \o
         << T(" returned status ", 17), StatusTok(a.status), T(" ", 1), StatusText(a.status),
            T(" with unexpected content. Preview (first 100 chars): ", 53) >> \o
         Preview(a.body, 100) \o << T("...", 3) >>
    [] OTHER ->
         << T("Request to", 10), T(" ", 1) >> \o specUrl \o
         << T(" failed: ", 9), StatusTok(a.status), T(" ", 1), StatusText(a.status) >>

\* route.ts, lines 31-62: the same, with the 404 answer taken first.
RouteNonOkMessage(specUrl, a) ==
  LET html == a.ctype = "text/html"
      json == a.ctype = "application/json"
      nonEmpty == BodyLen(a.body) > 0
  IN
  IF a.status = 404
  THEN << T("Failed to fetch spec. External server at ", 41) >> \o specUrl \o
       << T(" returned status ", 17), T("404", 3),
          T(" Not Found. Please check if the URL is correct and publicly accessible.", 71) >> \o
       ( IF html
         THEN << T(" The content appears to be an HTML page, not the API specification.", 67) >>
         ELSE IF nonEmpty /\ ~json
              THEN << T(" Unexpected content type: ", 26), CtypeTok(a.ctype),
                      T(". Preview (first 100 chars): ", 29) >> \o Preview(a.body, 100) \o
                   << T("...", 3) >>
              ELSE << >> )
  ELSE Part001NonOkMessage(specUrl, a)

-----------------------------------------------------------------------------
(* The URL proxy: src/src/app/api/fetch-spec/route.ts *)

\* The outcome of a step that returns a value or throws.  jsonAttempted
\* records whether JSON.parse was run on the text.
Done(v, jsonAttempted) ==
  [ok |-> TRUE, v |-> v, err |-> NoErr, jsonAttempted |-> jsonAttempted]
Thrown(err, jsonAttempted) ==
  [ok |-> FALSE, v |-> Scalar("undefined"), err |-> err, jsonAttempted |-> jsonAttempted]

\* The response of the proxy as the browser receives it.  `page` is "none"
\* for a JSON body written by the route, and "html" or "text" for the error
\* page of the platform in front of it.  jsonAttempted and validations record
\* what the route did; the client cannot read them.
Response(status, error, specObject, rawSpecText, versionOverridden, jsonAttempted, validations) ==
  [net |-> "ok", status |-> status, page |-> "none", error |-> error,
   specObject |-> specObject, rawSpecText |-> rawSpecText,
   versionOverridden |-> versionOverridden,
   jsonAttempted |-> jsonAttempted, validations |-> validations]

\* route.ts, lines 64-81: YAML first; JSON only when YAML.load returned a
\* value that is not acceptable.  An exception of YAML.load goes straight to
\* the outer catch.
ParseSpecRoute(specUrl, text) ==
  LET y == YAMLload(text)
      j == JSONparse(text)
      failed(inner) ==
        Err(<< T("Failed to parse specification", 29), T(" from ", 6) >> \o specUrl \o
            << T(". Content is not valid YAML or JSON. Error: ", 44) >> \o inner)
  IN
  IF ~y.ok THEN Thrown(failed(<< T("YAMLException", 13) >>), FALSE)
  ELSE IF Acceptable(y.v) THEN Done(y.v, FALSE)
  ELSE IF j.ok /\ Acceptable(j.v) THEN Done(j.v, TRUE)
  ELSE Thrown(failed(<< T("Content is not valid YAML or JSON.", 34) >>), TRUE)

\* route.ts, lines 122-132: the message of the error response.
FriendlyRoute(errorContext) ==
  IF Includes(errorContext, "Unsupported OpenAPI version") THEN errorContext
  ELSE IF \/ Includes(errorContext, "Failed to validate spec")
          \/ StartsWithPhrase(errorContext, "Failed to parse specification")
          \/ StartsWithPhrase(errorContext, "Request to")
          \/ StartsWithPhrase(errorContext, "External server")
       THEN errorContext
  ELSE << T("Error processing specification: ", 32) >> \o Substring0(errorContext, 200) \o
       ( IF CharLen(errorContext) > 200 THEN << T("...", 3) >> ELSE << >> )

\* route.ts, lines 106-135: the catch block.
CatchRoute(err, jsonAttempted, validations) ==
  Response(500, FriendlyRoute(err.message), Scalar("undefined"), NoText, FALSE,
           jsonAttempted, validations)

\* route.ts, POST: the whole handler on a request for specUrl, given the
\* external server's answer and the outcome of SwaggerParser.bundle.
POST(specUrl, a, outcome) ==
  IF a.net = "reject" THEN CatchRoute(Err(<< T("fetch failed", 12) >>), FALSE, 0)
  ELSE IF ~IsOk(a.status) THEN CatchRoute(Err(RouteNonOkMessage(specUrl, a)), FALSE, 0)
  ELSE
    LET parsed == ParseSpecRoute(specUrl, a.text) IN
    IF ~parsed.ok THEN CatchRoute(parsed.err, parsed.jsonAttempted, 0)
    ELSE
      LET norm == NormalizeRoute(parsed.v) IN
      IF outcome = "ok"
      THEN Response(200, << >>, LibResult(norm.doc), YAMLdump(LibResult(norm.doc)),
                    norm.versionOverridden, parsed.jsonAttempted, 1)
      ELSE CatchRoute(
             [message |-> << T("Failed to validate/bundle spec from ", 36) >> \o specUrl \o
                          << T(": ", 2) >> \o LibError(norm.doc, outcome).message,
              ver |-> LibError(norm.doc, outcome).ver],
             parsed.jsonAttempted, 1)

\* The tree route.ts hands to SwaggerParser.bundle for an answer (the value
\* whose outcomes the environment chooses among).
RouteTree(specUrl, a) ==
  IF a.net = "ok" /\ IsOk(a.status) /\ ParseSpecRoute(specUrl, a.text).ok
  THEN NormalizeRoute(ParseSpecRoute(specUrl, a.text).v).doc
  ELSE Scalar("undefined")

-----------------------------------------------------------------------------
(* The URL proxy: src/unnamed/part_001 *)

\* part_001, lines 51-66: YAML first; JSON whenever the YAML attempt did not
\* give an acceptable object, an exception of YAML.load included.
ParseSpecPart001(specUrl, text) ==
  LET y == YAMLload(text)
      j == JSONparse(text)
      yamlError == IF y.ok THEN T("Parsed YAML is not a valid OpenAPI object, trying JSON.", 55)
                   ELSE T("YAMLException", 13)
      jsonError == IF j.ok THEN T("Parsed JSON is not a valid OpenAPI object.", 42)
                   ELSE T("SyntaxError", 11)
  IN
  IF y.ok /\ Acceptable(y.v) THEN Done(y.v, FALSE)
  ELSE IF j.ok /\ Acceptable(j.v) THEN Done(j.v, TRUE)
  ELSE Thrown(Err(<< T("Failed to parse specification", 29), T(" from ", 6) >> \o specUrl \o
                  << T(". Content is not valid YAML or JSON. YAML error: ", 49), yamlError,
                     T(", JSON error: ", 14), jsonError >>),
              TRUE)

\* part_001, lines 108-117: the message of the error response.
FriendlyPart001(specUrl, message) ==
  IF message = << >>
  THEN << T("An unexpected error occurred while fetching or parsing the specification.", 73) >>
  ELSE IF Includes(message, "Unsupported OpenAPI version") THEN message
  ELSE IF Includes(message, "Failed to validate spec")
       THEN << T("The specification from ", 23) >> \o specUrl \o
            << T(" has validation errors. ", 24) >> \o message
  ELSE IF \/ StartsWithPhrase(message, "Failed to parse specification")
          \/ StartsWithPhrase(message, "Request to")
          \/ StartsWithPhrase(message, "External server")
       THEN message
  ELSE << T("An unexpected error occurred while fetching or parsing the specification.", 73) >>

\* part_001, lines 105-119: the catch block.
CatchPart001(specUrl, err, jsonAttempted, validations) ==
  Response(500, FriendlyPart001(specUrl, err.message), Scalar("undefined"), NoText, FALSE,
           jsonAttempted, validations)

\* A variant of RetryWanted that retries after any failure of the first
\* validation: the variant C13 tells apart from the code.
RetryWantedAlways(versionOverridden, err) == ~versionOverridden

\* part_001, lines 81-83: the first failure is an unsupported-version error
\* naming a 3.0.<digits> version that compares greater than '3.0.3'
\* (/Unsupported OpenAPI version: (3\.0\.\d+)/).
RetryWanted(versionOverridden, err) ==
  /\ ~versionOverridden
  /\ Includes(err.message, "Unsupported OpenAPI version")
  /\ StartsWith(err.ver, Str30Dot) /\ Len(err.ver) > Len(Str30Dot)
  /\ StrGreater(err.ver, Str303)

\* The tree part_001 validates again after the downgrade of the retry.
RetryTree(doc) == [doc EXCEPT !.openapi = StrField(Str303)]

\* part_001, POST: the whole handler, given the external server's answer and
\* the outcomes of the first and (if it comes to it) the second
\* SwaggerParser.validate.
POSTPart001(specUrl, a, outcome, outcome2) ==
  IF a.net = "reject" THEN CatchPart001(specUrl, Err(<< T("fetch failed", 12) >>), FALSE, 0)
  ELSE IF ~IsOk(a.status)
       THEN CatchPart001(specUrl, Err(Part001NonOkMessage(specUrl, a)), FALSE, 0)
  ELSE
    LET parsed == ParseSpecPart001(specUrl, a.text) IN
    IF ~parsed.ok THEN CatchPart001(specUrl, parsed.err, parsed.jsonAttempted, 0)
    ELSE
      LET norm == NormalizePart001(parsed.v)
          first == LibError(norm.doc, outcome)
          again == RetryTree(norm.doc)
      IN
      IF outcome = "ok"
      THEN Response(200, << >>, LibResult(norm.doc), YAMLdump(LibResult(norm.doc)),
                    norm.versionOverridden, parsed.jsonAttempted, 1)
      ELSE IF ~RetryWanted(norm.versionOverridden, first)
           THEN CatchPart001(specUrl, first, parsed.jsonAttempted, 1)
      ELSE IF outcome2 = "ok"
           THEN Response(200, << >>, LibResult(again), YAMLdump(LibResult(again)),
                         TRUE, parsed.jsonAttempted, 2)
      ELSE CatchPart001(
             specUrl,
             [message |-> << T("Failed to validate spec", 23), T(" from ", 6) >> \o specUrl \o
                          << T(" even after overriding version to 3.0.3: ", 41) >> \o
                          LibError(again, outcome2).message,
              ver |-> LibError(again, outcome2).ver],
             parsed.jsonAttempted, 2)

\* The trees part_001 hands to SwaggerParser.validate, first and on retry.
Part001Tree(specUrl, a) ==
  IF a.net = "ok" /\ IsOk(a.status) /\ ParseSpecPart001(specUrl, a.text).ok
  THEN NormalizePart001(ParseSpecPart001(specUrl, a.text).v).doc
  ELSE Scalar("undefined")

-----------------------------------------------------------------------------
(* The Active Specification Store (@/stores/openapi-store) *)

\* Number of load operations (submissions of the import form) in a run.
MaxLoads == 2

LoadIds == 1..MaxLoads

NoDoc == [Scalar("null") EXCEPT !.stage = "none"]
NoName == << >>
NoId == [now |-> 0, rnd |-> 0]

\* `by` records, for each of the four fields of the loaded specification,
\* the load whose call wrote it (0: none).
EmptyStore ==
  [spec |-> NoDoc, rawSpec |-> NoText, fileName |-> NoName, activeSpecId |-> NoId,
   isLoading |-> FALSE, error |-> << >>,
   by |-> [spec |-> 0, rawSpec |-> 0, fileName |-> 0, activeSpecId |-> 0]]

setLoading(st, isLoading) == [st EXCEPT !.isLoading = isLoading]

\* setError(null) is setError of the empty message.
setError(st, error) == [st EXCEPT !.error = error]

\* Replaces document, raw text, name and id in one update and clears error.
setSpec(st, l, specObject, rawSpecText, name, id) ==
  [st EXCEPT !.spec = specObject, !.rawSpec = rawSpecText, !.fileName = name,
             !.activeSpecId = id, !.error = << >>,
             !.by = [spec |-> l, rawSpec |-> l, fileName |-> l, activeSpecId |-> l]]

clear(st) == EmptyStore

\* The four fields a load replaces, with their writers.
Loaded(st) ==
  [spec |-> st.spec, rawSpec |-> st.rawSpec, fileName |-> st.fileName,
   activeSpecId |-> st.activeSpecId, by |-> st.by]

-----------------------------------------------------------------------------
(* The load operation: onSubmit of OpenApiUploadForm *)

\* A URL: its text cut at every "/".
Url(tokens) == tokens
ExampleUrl ==
  << T("https:", 6), T("/", 1), T("/", 1), T("example.com", 11), T("/", 1),
     T("openapi.yaml", 12) >>

\* A variant of UrlFileName without the `|| "openapi-spec-from-url"`: the
\* variant C25 tells apart from the code.
UrlFileNameBare(url) ==
  LET slashes == { i \in 1..Len(url) : url[i].s = "/" }
      last == IF slashes = {} THEN 0
              ELSE CHOOSE i \in slashes : \A k \in slashes : k <= i
  IN SubSeq(url, last + 1, Len(url))

\* data.url.substring(data.url.lastIndexOf('/') + 1) || "openapi-spec-from-url"
UrlFileName(url) ==
  LET slashes == { i \in 1..Len(url) : url[i].s = "/" }
      last == IF slashes = {} THEN 0
              ELSE CHOOSE i \in slashes : \A k \in slashes : k <= i
      rest == SubSeq(url, last + 1, Len(url))
  IN IF rest = << >> THEN << T("openapi-spec-from-url", 21) >> ELSE rest

\* A file name: its stem and its extension.
FileName(stem, ext) == << T(stem, 4), T(ext, 5) >>

\* inputFileName.endsWith(".yaml") || inputFileName.endsWith(".yml")
IsYamlName(name) == name[Len(name)].s \in {".yaml", ".yml"}

\* What the part of onSubmit that runs after an await comes to: the values it
\* hands on, or the exception thrown and the place (`site`) that threw it.
Success(specObject, rawSpecText, wasVersionOverridden, inputFileName) ==
  [ok |-> TRUE, specObject |-> specObject, rawSpecText |-> rawSpecText,
   wasVersionOverridden |-> wasVersionOverridden, inputFileName |-> inputFileName,
   err |-> NoErr, site |-> "none"]
Failure(err, site) ==
  [ok |-> FALSE, specObject |-> Scalar("undefined"), rawSpecText |-> NoText,
   wasVersionOverridden |-> FALSE, inputFileName |-> NoName,
   err |-> err, site |-> site]

\* A variant of SitesInTry in which the read of `openapi` at line 123 stands
\* outside the try block: the variant C8 tells apart from the code.
SitesInTryNarrow ==
  { "fetch", "response.ok", "JSON.parse(response)", "result.error",
    "file.text", "YAML.load", "JSON.parse(file)", "SwaggerParser.bundle" }

\* The statements of onSubmit that can throw, by where they stand: every one
\* of them is inside the try block of lines 68-181.
SitesInTry ==
  { "fetch", "response.ok", "JSON.parse(response)", "result.error",
    "file.text", "YAML.load", "JSON.parse(file)", "parsedContentForFile.openapi",
    "SwaggerParser.bundle" }

InTry(site) == site \in SitesInTry

\* The answer of the platform in front of the proxy when the route did not
\* run: fetch rejects, or an error page that is not JSON.
PlatformFailure(net, status, page) ==
  [net |-> net, status |-> status, page |-> page, error |-> << >>,
   specObject |-> Scalar("undefined"), rawSpecText |-> NoText,
   versionOverridden |-> FALSE, jsonAttempted |-> FALSE, validations |-> 0]

\* PageLen: the number of characters of an error page of the platform.
PageLen(page) == IF page = "html" THEN 180 ELSE 40

PagePreview(page, k) ==
  IF PageLen(page) <= k THEN << T(page, PageLen(page)) >>
  ELSE << [s |-> page, n |-> k, cut |-> TRUE] >>

\* onSubmit, lines 76-109: what the URL branch makes of the proxy's response.
UrlOutcome(url, r) ==
  IF r.net = "reject" THEN Failure(Err(<< T("Failed to fetch", 15) >>), "fetch")
  ELSE IF ~IsOk(r.status)
       THEN Failure(
              Err(IF r.page = "none"
                  THEN IF r.error # << >> THEN r.error
                       ELSE << T("Proxy API returned an invalid error format (Status: ", 52),
                               StatusTok(r.status), T("). Raw: ", 8), T("{}", 2), T("...", 3) >>
                  ELSE IF r.page = "html"
                       THEN << T("Failed to fetch spec. External server at ", 41) >> \o url \o
                            << T(" returned an HTML page (status ", 31), StatusTok(r.status),
                               T(" ", 1), StatusText(r.status),
                               T("). This could be an error page or authentication prompt.", 56) >>
                       ELSE << T("Failed to fetch spec. External server at ", 41) >> \o url \o
                            << T(" returned status ", 17), StatusTok(r.status), T(" ", 1),
                               StatusText(r.status),
                               T(" with unexpected content. Preview (first 100 chars): ", 53) >> \o
                            PagePreview(r.page, 100) \o << T("...", 3) >>),
              "response.ok")
  ELSE IF r.page # "none"
       THEN Failure(Err(<< T("SyntaxError", 11) >>), "JSON.parse(response)")
  ELSE IF r.error # << >> THEN Failure(Err(r.error), "result.error")
  ELSE Success(r.specObject, r.rawSpecText, r.versionOverridden, UrlFileName(url))


\* onSubmit, lines 112-130: the file branch up to the call of
\* SwaggerParser.bundle.  The extension of the name picks the one parser that
\* is run; specObject is here the tree handed to the bundler.
FileParsed(inputFileName, text) ==
  LET yaml == IsYamlName(inputFileName)
      p == IF yaml THEN YAMLload(text) ELSE JSONparse(text)
  IN
  IF ~p.ok
  THEN IF yaml THEN Failure(Err(<< T("YAMLException", 13) >>), "YAML.load")
       ELSE Failure(Err(<< T("SyntaxError", 11) >>), "JSON.parse(file)")
  ELSE IF p.v.kind \in {"null", "undefined"}
       THEN Failure(Err(<< T("TypeError: Cannot read properties of null (reading 'openapi')", 61) >>),
                    "parsedContentForFile.openapi")
  ELSE Success(NormalizeFile(p.v).doc, NoText, NormalizeFile(p.v).versionOverridden,
               inputFileName)

\* parsedContentForFile.openapi as read before the override (line 123).
OriginalVersionFromFile(inputFileName, text) ==
  LET p == IF IsYamlName(inputFileName) THEN YAMLload(text) ELSE JSONparse(text)
  IN p.v.openapi

\* A variant of FileBundled that hands the tree given to the bundler, not the
\* bundler's result, on to setSpec: the variant C1 tells apart from the code.
FileBundledRaw(inputFileName, tree, wasVersionOverridden, originalVersion, outcome) ==
  IF outcome = "ok"
  THEN Success(tree, YAMLdump(tree), wasVersionOverridden, inputFileName)
  ELSE Failure(LibError(tree, outcome), "SwaggerParser.bundle")

\* onSubmit, lines 132-141: the outcome of SwaggerParser.bundle on the tree.
FileBundled(inputFileName, tree, wasVersionOverridden, originalVersion, outcome) ==
  IF outcome = "ok"
  THEN Success(LibResult(tree), YAMLdump(LibResult(tree)), wasVersionOverridden, inputFileName)
  ELSE IF wasVersionOverridden
       THEN Failure(
              [message |-> << T("Failed to bundle after overriding file version from ", 52),
                              T(ToString(originalVersion.s), Len(originalVersion.s)),
                              T(" to 3.0.3: ", 11) >> \o LibError(tree, outcome).message,
               ver |-> LibError(tree, outcome).ver],
              "SwaggerParser.bundle")
  ELSE Failure(LibError(tree, outcome), "SwaggerParser.bundle")

\* err.message || "Failed to parse or validate OpenAPI specification."
ErrorMessage(err) ==
  IF err.message # << >> THEN err.message
  ELSE << T("Failed to parse or validate OpenAPI specification.", 50) >>

\* A variant of SetSpecCall that keeps the name the store already had: the
\* variant C6 tells apart from the code.
SetSpecCallStale(st, l, o, newSpecId) ==
  [setSpec(st, l, o.specObject, o.rawSpecText, o.inputFileName, newSpecId)
     EXCEPT !.fileName = st.fileName, !.by.fileName = st.by.fileName]

\* The arguments of the setSpec call of lines 154-159.
SetSpecCall(st, l, o, newSpecId) ==
  setSpec(st, l, o.specObject, o.rawSpecText, o.inputFileName, newSpecId)

\* onSubmit, lines 153-192: the end of a load.  On success setSpec and then
\* the finally block; on an exception thrown inside the try block the catch
\* block (setError) and then the finally block; an exception thrown outside
\* the try block leaves onSubmit and runs neither.
Finish(st, l, o, newSpecId) ==
  IF o.ok THEN setLoading(SetSpecCall(st, l, o, newSpecId), FALSE)
  ELSE IF InTry(o.site) THEN setLoading(setError(st, ErrorMessage(o.err)), FALSE)
  ELSE st

\* A variant of Toasts in which line 169 is a plain `else`: the variant C23
\* tells apart from the code.
ToastsPlainElse(type, o) ==
  IF ~o.ok
  THEN IF InTry(o.site) THEN << << "Error Processing Specification", "destructive" >> >>
       ELSE << >>
  ELSE (IF o.wasVersionOverridden /\ type = "file"
        THEN << << "Version Override (File)", "default" >> >> ELSE << >>)
       \o (IF o.wasVersionOverridden /\ type = "url"
           THEN << << "Success & Version Override (URL)", "default" >> >>
           ELSE << << "Success", "default" >> >>)

\* The toasts a load shows: (title, variant) pairs in the order shown.
Toasts(type, o) ==
  IF ~o.ok
  THEN IF InTry(o.site) THEN << << "Error Processing Specification", "destructive" >> >>
       ELSE << >>
  ELSE IF o.wasVersionOverridden
       THEN IF type = "file" THEN << << "Version Override (File)", "default" >> >>
            ELSE << << "Success & Version Override (URL)", "default" >> >>
  ELSE << << "Success", "default" >> >>

-----------------------------------------------------------------------------
(* State *)

VARIABLES
  store,   \* the Active Specification Store
  load,    \* load[l]: the l-th submission of the form: where its onSubmit
           \* stands, its local variables, the proxy response in flight
  norm,    \* the Version Normalizer applied to one document (SpecNorm)
  view,    \* what the DependencyGraphViewer shows (SpecGraph)
  sim,     \* the ApiDashboard's simulation: its state and its timers (SpecSim)
  panel    \* the ApiComplianceCheckView's own state (SpecViews)

vars == << store, load, norm, view, sim, panel >>

-----------------------------------------------------------------------------
(* The dependency view: DependencyGraphViewer of src/unnamed/part_002 *)

\* A JSON value of the document: a string (a `$ref` string is kept as the
\* prefix it starts with and the rest of it), an object or array (its own
\* keys with their values, in key order), or any other value.
StrValue(prefix, rest) == [t |-> "str", prefix |-> prefix, rest |-> rest, kv |-> << >>]
ObjValue(kv) == [t |-> "obj", prefix |-> "", rest |-> "", kv |-> kv]
OtherValue == [t |-> "other", prefix |-> "", rest |-> "", kv |-> << >>]

\* array.includes(x)
InSeq(seq, x) == \E i \in 1..Len(seq) : seq[i] = x

\* { operations: [], referencedBySchemas: [] }
EmptyUsage == [operations |-> << >>, referencedBySchemas |-> << >>]

\* A variant of RecordReference that also records the edge on the referencing
\* schema: the variant C17 tells apart from the code.
RecordReferenceBothWays(schemaUsageMap, current, refSchemaName) ==
  IF current # "" /\ refSchemaName \in DOMAIN schemaUsageMap
                  /\ current \in DOMAIN schemaUsageMap
  THEN [schemaUsageMap EXCEPT
          ![refSchemaName].referencedBySchemas =
             IF InSeq(@, current) THEN @ ELSE Append(@, current),
          ![current].referencedBySchemas =
             IF InSeq(@, refSchemaName) \/ current = refSchemaName THEN @
             ELSE Append(@, refSchemaName)]
  ELSE schemaUsageMap

\* A variant of RecordReference without the includes() test: the variant C19
\* tells apart from the code.
RecordReferenceEachTime(schemaUsageMap, current, refSchemaName) ==
  IF current # "" /\ refSchemaName \in DOMAIN schemaUsageMap
  THEN [schemaUsageMap EXCEPT ![refSchemaName].referencedBySchemas = Append(@, current)]
  ELSE schemaUsageMap

\* A variant of RecordReference that makes a record for a name the map does
\* not have: the variant C20 tells apart from the code.
RecordReferenceOrCreate(schemaUsageMap, current, refSchemaName) ==
  IF current = "" THEN schemaUsageMap
  ELSE IF refSchemaName \in DOMAIN schemaUsageMap
       THEN IF InSeq(schemaUsageMap[refSchemaName].referencedBySchemas, current)
            THEN schemaUsageMap
            ELSE [schemaUsageMap EXCEPT
                    ![refSchemaName].referencedBySchemas = Append(@, current)]
  ELSE schemaUsageMap @@
       (refSchemaName :> [EmptyUsage EXCEPT !.referencedBySchemas = << current >>])

\* findRefs, lines 123-128: the schema being scanned is added to the
\* referencedBySchemas of the schema a `$ref` names, if the map has that
\* name and the list does not hold the scanned schema yet.  `current` is ""
\* when findRefs was called without a schema name.
RecordReference(schemaUsageMap, current, refSchemaName) ==
  IF current # "" /\ refSchemaName \in DOMAIN schemaUsageMap
  THEN IF InSeq(schemaUsageMap[refSchemaName].referencedBySchemas, current)
       THEN schemaUsageMap
       ELSE [schemaUsageMap EXCEPT
               ![refSchemaName].referencedBySchemas = Append(@, current)]
  ELSE schemaUsageMap

\* findRefs, lines 113-137: the names found in obj, in the order found, and
\* the map as the scan leaves it.
RECURSIVE findRefs(_, _, _, _)
RECURSIVE findRefsKeys(_, _, _, _)
findRefsKeys(kv, current, refPrefix, acc) ==
  IF kv = << >> THEN acc
  ELSE
    LET key == Head(kv)[1]
        value == Head(kv)[2]
        next ==
          IF key = "$ref" /\ value.t = "str"
          THEN IF value.prefix = refPrefix
               THEN [refsFound |-> Append(acc.refsFound, value.rest),
                     map |-> RecordReference(acc.map, current, value.rest)]
               ELSE acc
          ELSE LET inner == findRefs(value, current, refPrefix, acc.map)
               IN [refsFound |-> acc.refsFound \o inner.refsFound, map |-> inner.map]
    IN findRefsKeys(Tail(kv), current, refPrefix, next)

findRefs(obj, current, refPrefix, schemaUsageMap) ==
  IF obj.t = "obj"
  THEN findRefsKeys(obj.kv, current, refPrefix,
                    [refsFound |-> << >>, map |-> schemaUsageMap])
  ELSE [refsFound |-> << >>, map |-> schemaUsageMap]

\* The content of a document as the viewer reads it: the two schema
\* containers, components.schemas and definitions (a sequence of
\* << name, schema >> in key order; `present` is false for a container the
\* document does not have), and its paths: a sequence of << path, path item >>,
\* a path item being a sequence of << key, operation >>.
NoContainer == [present |-> FALSE, entries |-> << >>]
Container(entries) == [present |-> TRUE, entries |-> entries]
GraphBody(schemas, definitions, paths) ==
  [schemas |-> schemas, definitions |-> definitions, paths |-> paths]

\* An operation: whether it is an object with a `responses` key, the schemas
\* of its request body (v3: one per content type; v2: one per body
\* parameter) and the schemas of its responses (v3: per status and content
\* type; v2: per status), in key order.
Operation(hasResponses, request, responses) ==
  [hasResponses |-> hasResponses, request |-> request, responses |-> responses]

\* isOpenAPIV3, isOpenAPIV2 (lines 29-36).
isOpenAPIV3(doc) ==
  doc.kind = "object" /\ doc.openapi.t = "str" /\ StartsWith(doc.openapi.s, << 51, 46 >>)
isOpenAPIV2(doc) ==
  doc.kind = "object" /\ doc.swagger.t = "str" /\ StartsWith(doc.swagger.s, << 50, 46 >>)

\* Lines 97-103.
SchemasContainer(doc) ==
  IF isOpenAPIV3(doc) THEN doc.body.schemas ELSE doc.body.definitions
RefPrefix(doc) == IF isOpenAPIV3(doc) THEN "#/components/schemas/" ELSE "#/definitions/"

\* A variant of InitialMap in which the map outlives a render: the variant
\* C22 tells apart from the code, where every render starts a new Map.
InitialMapKept(doc) ==
  IF view.shows = "graph" THEN view.map
  ELSE [name \in { SchemasContainer(doc).entries[i][1] :
                     i \in 1..Len(SchemasContainer(doc).entries) } |-> EmptyUsage]

\* Lines 93 and 105-110: a new map with one empty record per name of the
\* container.
InitialMap(doc) ==
  [name \in { SchemasContainer(doc).entries[i][1] :
                i \in 1..Len(SchemasContainer(doc).entries) } |-> EmptyUsage]

\* Lines 139-145: findRefs on every schema of the container, under its name.
RECURSIVE ScanSchemas(_, _, _)
ScanSchemas(entries, refPrefix, schemaUsageMap) ==
  IF entries = << >> THEN schemaUsageMap
  ELSE ScanSchemas(Tail(entries), refPrefix,
                   findRefs(Head(entries)[2], Head(entries)[1], refPrefix,
                            schemaUsageMap).map)

\* recordOperationUsage, lines 159-165.
RECURSIVE recordOperationUsage(_, _, _, _, _)
recordOperationUsage(schemaUsageMap, schemaNames, path, method, type) ==
  IF schemaNames = << >> THEN schemaUsageMap
  ELSE recordOperationUsage(
         IF Head(schemaNames) \in DOMAIN schemaUsageMap
         THEN [schemaUsageMap EXCEPT
                 ![Head(schemaNames)].operations =
                    Append(@, [path |-> path, method |-> method, type |-> type])]
         ELSE schemaUsageMap,
         Tail(schemaNames), path, method, type)

\* Lines 167-207, for one operation: every request schema, then every
\* response schema, is scanned by findRefs (without a schema name) and the
\* names found are recorded.
RECURSIVE ScanOperationSchemas(_, _, _, _, _, _)
ScanOperationSchemas(schemas, type, path, method, refPrefix, schemaUsageMap) ==
  IF schemas = << >> THEN schemaUsageMap
  ELSE ScanOperationSchemas(
         Tail(schemas), type, path, method, refPrefix,
         recordOperationUsage(
           schemaUsageMap,
           findRefs(Head(schemas), "", refPrefix, schemaUsageMap).refsFound,
           path, method, type))

\* ['get', 'put', ...].includes(method.toLowerCase()), line 154, for the keys
\* the documents here use.
IsMethod(key) ==
  key \in {"get", "put", "post", "delete", "options", "head", "patch", "trace"}

\* Lines 153-208: the keys of one path item.
RECURSIVE ScanPathItem(_, _, _, _)
ScanPathItem(items, path, refPrefix, schemaUsageMap) ==
  IF items = << >> THEN schemaUsageMap
  ELSE
    LET method == Head(items)[1]
        operation == Head(items)[2]
    IN ScanPathItem(
         Tail(items), path, refPrefix,
         IF ~IsMethod(method) \/ ~operation.hasResponses THEN schemaUsageMap
         ELSE ScanOperationSchemas(
                operation.responses, "response", path, method, refPrefix,
                ScanOperationSchemas(operation.request, "requestBody", path, method,
                                     refPrefix, schemaUsageMap)))

\* Lines 147-210: every path of the document.
RECURSIVE ScanPaths(_, _, _)
ScanPaths(paths, refPrefix, schemaUsageMap) ==
  IF paths = << >> THEN schemaUsageMap
  ELSE ScanPaths(Tail(paths), refPrefix,
                 ScanPathItem(Head(paths)[2], Head(paths)[1], refPrefix, schemaUsageMap))

\* Lines 93-210: the map the viewer builds for a v3 or v2 document.
SchemaUsageMap(doc) ==
  ScanPaths(doc.body.paths, RefPrefix(doc),
            ScanSchemas(SchemasContainer(doc).entries, RefPrefix(doc), InitialMap(doc)))

\* DependencyGraphViewer, lines 39-91 and 93-210: what the viewer shows for
\* the store it reads.
DependencyGraphViewer(st) ==
  IF st.error # << >> THEN [shows |-> "error", map |-> << >>]
  ELSE IF st.spec.kind = "null" THEN [shows |-> "none", map |-> << >>]
  ELSE IF ~isOpenAPIV3(st.spec) /\ ~isOpenAPIV2(st.spec)
       THEN [shows |-> "unsupported", map |-> << >>]
  ELSE [shows |-> "graph", map |-> SchemaUsageMap(st.spec)]

-----------------------------------------------------------------------------
(* The dashboard's simulation: ApiDashboard of
   src/src/components/compliance-check/api-compliance-check-view.tsx *)

MAX_SIMULATION_SECONDS == 30

\* Number of intervals setInterval creates in a run.
MaxTimers == 3

\* The `null` of simulationIntervalId.
NoInterval == 0

\* The dashboard as mounted, nothing started. `timers` are the intervals
\* scheduled, each with the simulationIntervalId that the stopSimulation its
\* tick calls closes over; `cleanupId` is the simulationIntervalId that the
\* stopSimulation of the installed effect cleanup closes over; `lastPoint` is
\* the n of the last point "T+n" a tick appended to the metrics series, 0
\* when the series were generated anew; `created` counts the intervals.
SimIdle ==
  [mounted |-> TRUE, isSimulating |-> FALSE, simulationTimeElapsed |-> 0,
   simulationIntervalId |-> NoInterval, timers |-> {}, cleanupId |-> NoInterval,
   created |-> 0, lastPoint |-> 0]

\* Lines 381-387, for the stopSimulation of a render whose
\* simulationIntervalId was the given one.
stopSimulation(s, simulationIntervalId) ==
  LET cleared ==
        IF simulationIntervalId # NoInterval
        THEN [s EXCEPT !.timers = { t \in @ : t.id # simulationIntervalId },
                       !.simulationIntervalId = NoInterval]
        ELSE s
  IN [cleared EXCEPT !.isSimulating = FALSE]

\* Lines 408-485: the interval's tick keeps the stopSimulation of the render
\* that started it.
startSimulation(s) ==
  LET intervalId == s.created + 1
  IN [stopSimulation(s, s.simulationIntervalId) EXCEPT
        !.simulationTimeElapsed = 0,
        !.lastPoint = 0,
        !.isSimulating = TRUE,
        !.timers = @ \cup { [id |-> intervalId, stopId |-> s.simulationIntervalId] },
        !.simulationIntervalId = intervalId,
        !.created = intervalId]

\* A variant of the tick without the test of line 424: the variant C29 tells
\* apart from the code.
tickUncapped(s, t) ==
  [s EXCEPT !.simulationTimeElapsed = @ + 1, !.lastPoint = s.simulationTimeElapsed + 1]

\* Lines 421-483: one tick of the interval t.
tick(s, t) ==
  LET nextTime == s.simulationTimeElapsed + 1
  IN IF nextTime >= MAX_SIMULATION_SECONDS
     THEN [stopSimulation(s, t.stopId) EXCEPT
             !.simulationTimeElapsed = MAX_SIMULATION_SECONDS]
     ELSE [s EXCEPT !.simulationTimeElapsed = nextTime, !.lastPoint = nextTime]

\* Lines 523 and 545: the dashboard renders its controls only for a store
\* with a document, its text and no error.
ControlsRendered(st) ==
  st.error = << >> /\ st.spec.kind # "null" /\ st.rawSpec # NoText

\* Lines 487-499. The branch of line 491 needs a click on a control that
\* line 545 does not render.
handleToggleSimulation(s, st) ==
  IF s.isSimulating THEN stopSimulation(s, s.simulationIntervalId)
  ELSE IF st.spec.kind = "null" \/ st.rawSpec = NoText THEN s
  ELSE startSimulation(s)

\* Lines 501-514.
handleResetSimulation(s) ==
  [stopSimulation(s, s.simulationIntervalId) EXCEPT
     !.simulationTimeElapsed = 0, !.lastPoint = 0]

\* Lines 368-378: the effect on [spec, activeSpecId, extractEndpoints].
SpecEffect(s) ==
  [stopSimulation(s, s.simulationIntervalId) EXCEPT
     !.simulationTimeElapsed = 0, !.lastPoint = 0]

\* Lines 516-520: stopSimulation is a new function whenever
\* simulationIntervalId changed, so the effect's cleanup runs, with the
\* stopSimulation of the render before, and the effect of this render is
\* installed.
CleanupPending(s) == s.mounted /\ s.cleanupId # s.simulationIntervalId
CleanupEffect(s) ==
  [stopSimulation(s, s.cleanupId) EXCEPT !.cleanupId = s.simulationIntervalId]

\* Unmounting runs the installed cleanup and drops the component's state;
\* the intervals are the page's and stay.
Unmounted(s) ==
  [SimIdle EXCEPT !.mounted = FALSE,
                  !.timers = stopSimulation(s, s.cleanupId).timers,
                  !.created = s.created]

-----------------------------------------------------------------------------
(* The compliance view: ApiComplianceCheckView of
   src/src/components/compliance-check/api-compliance-check-view.tsx *)

\* The `null` of complianceResult, and no request in flight.
NoResult == [of |-> NoText]
NoRequest == [openApiSpec |-> NoText]

\* Lines 26-28: the view as mounted; `request` is the call of
\* checkApiCompliance in flight.
PanelIdle ==
  [complianceResult |-> NoResult, isLoading |-> FALSE, analysisError |-> FALSE,
   request |-> NoRequest]

\* Lines 128 and 157: the form is rendered for a store with a document and no
\* error, and its button is enabled unless a check runs or rawSpec is empty.
CanSubmitCheck(st, p) ==
  st.spec.kind # "null" /\ st.error = << >> /\ ~p.isLoading /\ st.rawSpec # NoText

\* Lines 39-54: onSubmit up to the await.
onSubmitCheck(st, p) ==
  IF st.rawSpec = NoText THEN p
  ELSE [p EXCEPT !.isLoading = TRUE, !.analysisError = FALSE,
                 !.complianceResult = NoResult,
                 !.request = [openApiSpec |-> st.rawSpec]]

\* Lines 55-59 and 69-71: checkApiCompliance returned its report on the text
\* it was sent.
onCheckResult(p) ==
  [p EXCEPT !.complianceResult = [of |-> p.request.openApiSpec],
            !.isLoading = FALSE, !.request = NoRequest]

\* Lines 60-71: checkApiCompliance threw.
onCheckError(p) ==
  [p EXCEPT !.analysisError = TRUE, !.isLoading = FALSE, !.request = NoRequest]

\* Lines 93-193 and on: what the view renders for the store and its state.
ApiComplianceCheckView(st, p) ==
  [uploadForm |-> (st.spec.kind = "null" /\ st.error = << >>) \/ st.error # << >>,
   specError |-> st.error,
   checkForm |-> st.spec.kind # "null" /\ st.error = << >>,
   report |-> IF p.complianceResult # NoResult /\ ~p.isLoading /\ ~p.analysisError
              THEN p.complianceResult ELSE NoResult]

-----------------------------------------------------------------------------
(* Inputs and initial state *)

\* Number of distinct values Math.random().toString(36).substring(2, 9) takes.
MaxRnd == 2

\* Number of distinct values Date.now() takes in a run.
MaxNow == 2

\* The latest value of Date.now() a load has read: the clock does not go back.
LatestNow ==
  LET seen == { load[l].id.now : l \in LoadIds } \cup { 1 }
  IN CHOOSE t \in seen : \A u \in seen : u <= t

\* `local-${Date.now()}-${Math.random().toString(36).substring(2, 9)}`
NewSpecIds == { [now |-> t, rnd |-> r] : t \in LatestNow..MaxNow, r \in 1..MaxRnd }

NoInput == Text("none", Scalar("undefined"))
NoResponse == PlatformFailure("none", 0, "none")
NoAnswer == Answer("none", 0, "null", "empty", NoInput)

IdleLoad ==
  [pc |-> "idle", type |-> "none", url |-> << >>, name |-> NoName,
   impl |-> "none", id |-> NoId, answer |-> NoAnswer, text |-> NoInput, response |-> NoResponse,
   attempts |-> << >>,
   tree |-> Scalar("undefined"), wasVersionOverridden |-> FALSE,
   originalVersion |-> Absent, before |-> Loaded(EmptyStore),
   result |-> "none", site |-> "none", order |-> 0, toasts |-> << >>]

ViewIdle == [shows |-> "nothing", map |-> << >>]

NormIdle == [phase |-> "off", path |-> "none", doc |-> Scalar("undefined"),
             out |-> [doc |-> Scalar("undefined"), versionOverridden |-> FALSE]]

\* The documents, texts and answers drawn as inputs of the loads.
Doc(version) == Obj(Absent, StrField(version), 1)
SwaggerDoc == Obj(StrField(Str20), Absent, 1)
KeylessDoc == Obj(Absent, Absent, 1)

Texts ==
  { Text("json", Doc(VersionStr(3, 0, 3))),
    Text("yaml", Doc(VersionStr(3, 0, 9))),
    Text("yaml", Doc(VersionStr(3, 0, 10))),
    Text("jsonDup", Doc(VersionStr(3, 0, 3))),
    Text("yaml", SwaggerDoc),
    Text("json", KeylessDoc),
    Text("yaml", Scalar("string")),
    Text("json", Scalar("null")),
    Text("garbage", Scalar("undefined")) }

Answers ==
  { Answer("ok", 200, "null", "empty", t) : t \in Texts } \cup
  { Answer("reject", 0, "null", "empty", NoInput),
    Answer("ok", 404, "text/html", "html", NoInput),
    Answer("ok", 500, "application/json", "jsonMessage", NoInput) }

Urls == { ExampleUrl }
FileNames == { FileName("spec", ".json"), FileName("spec", ".yaml") }

Init ==
  /\ store = EmptyStore
  /\ load = [l \in LoadIds |-> IdleLoad]
  /\ norm = NormIdle
  /\ view = ViewIdle
  /\ sim = SimIdle
  /\ panel = PanelIdle

\* The l-th load ends with outcome o.
Ended(l, o, newSpecId) ==
  /\ store' = Finish(store, l, o, newSpecId)
  /\ load' = [load EXCEPT ![l].pc = "done",
                          ![l].result = IF o.ok THEN "ok"
                                        ELSE IF InTry(o.site) THEN "failed" ELSE "escaped",
                          ![l].site = o.site,
                          ![l].id = IF o.ok THEN newSpecId ELSE NoId,
                          ![l].wasVersionOverridden = o.wasVersionOverridden,
                          ![l].order = Cardinality({ k \in LoadIds : load[k].pc = "done" }) + 1,
                          ![l].toasts = Toasts(load[l].type, o)]

-----------------------------------------------------------------------------
(* Actions *)

\* The form is submitted: form.handleSubmit(onSubmit) validates the values
\* and then calls onSubmit.  The submit button is disabled while the store is
\* loading (<Button type="submit" disabled={isLoading}>); the test is made
\* when the form is submitted, and onSubmit, which has no test of its own,
\* runs after the asynchronous validation.
Submitted(l, urls, names) ==
  /\ load[l].pc = "idle"
  /\ \A k \in LoadIds : k < l => load[k].pc # "idle"
  /\ ~store.isLoading
  /\ \/ \E url \in urls :
          load' = [load EXCEPT ![l].pc = "submitted", ![l].type = "url", ![l].url = url]
     \/ \E name \in names :
          load' = [load EXCEPT ![l].pc = "submitted", ![l].type = "file", ![l].name = name]
  /\ UNCHANGED << store, norm, view, sim, panel >>

handleSubmit(l) == Submitted(l, Urls, FileNames)

\* onSubmit, lines 53-76 and 112-114: up to the first await (fetch of the
\* proxy, or file.text()).  Submissions are served in order.  The branch of
\* lines 61-66 needs `window` to be undefined and is not taken in a browser.
onSubmit(l) ==
  /\ load[l].pc = "submitted"
  /\ \A k \in LoadIds : k < l => load[k].pc # "submitted"
  /\ store' = setError(setLoading(store, TRUE), << >>)
  /\ load' = [load EXCEPT ![l].pc = IF load[l].type = "url" THEN "fetching" ELSE "readingFile",
                          ![l].before = Loaded(store)]
  /\ UNCHANGED << norm, view, sim, panel >>

\* The outcomes of the calls of SwaggerParser the proxy made for a response,
\* in order.
Attempts(response, outcome, outcome2) ==
  SubSeq(<< outcome, outcome2 >>, 1, response.validations)

\* The proxy (route.ts) serves the request of load l, the external server
\* answering with one of `answers`.
RouteServes(l, answers) ==
  /\ load[l].pc = "fetching"
  /\ \E a \in answers :
       \E outcome \in LibOutcomes(RouteTree(load[l].url, a)) :
         load' = [load EXCEPT ![l].pc = "responded", ![l].impl = "route",
                              ![l].answer = a, ![l].text = a.text,
                              ![l].response = POST(load[l].url, a, outcome),
                              ![l].attempts =
                                 Attempts(POST(load[l].url, a, outcome), outcome, outcome)]
  /\ UNCHANGED << store, norm, view, sim, panel >>

RoutePOST(l) == RouteServes(l, Answers)

\* The proxy (part_001) serves the request of load l, the external server
\* answering with one of `answers`.
Part001Serves(l, answers) ==
  /\ load[l].pc = "fetching"
  /\ \E a \in answers :
       \E outcome \in LibOutcomes(Part001Tree(load[l].url, a)) :
         \E outcome2 \in LibOutcomes(RetryTree(Part001Tree(load[l].url, a))) :
           load' = [load EXCEPT ![l].pc = "responded", ![l].impl = "part_001",
                                ![l].answer = a, ![l].text = a.text,
                                ![l].response = POSTPart001(load[l].url, a, outcome, outcome2),
                                ![l].attempts =
                                   Attempts(POSTPart001(load[l].url, a, outcome, outcome2),
                                            outcome, outcome2)]
  /\ UNCHANGED << store, norm, view, sim, panel >>

Part001POST(l) == Part001Serves(l, Answers)

\* The request does not reach the route: fetch rejects, or the platform
\* answers with an error page.
ProxyUnavailable(l) ==
  /\ load[l].pc = "fetching"
  /\ \E r \in { PlatformFailure("reject", 0, "none"), PlatformFailure("ok", 502, "html") } :
       load' = [load EXCEPT ![l].pc = "responded", ![l].impl = "platform", ![l].response = r]
  /\ UNCHANGED << store, norm, view, sim, panel >>

\* onSubmit, lines 76-109 and 153-192: the URL branch, from the response to
\* the end.
onSubmitResponse(l) ==
  /\ load[l].pc = "responded"
  /\ \E id \in NewSpecIds :
       Ended(l, UrlOutcome(load[l].url, load[l].response), id)
  /\ UNCHANGED << norm, view, sim, panel >>

\* onSubmit, lines 114-134: the file branch, from the text of the file to the
\* call of SwaggerParser.bundle, or to the end if a statement throws.
onSubmitFileText(l) ==
  /\ load[l].pc = "readingFile"
  /\ \/ \E id \in NewSpecIds :
          Ended(l, Failure(Err(<< T("NotReadableError", 16) >>), "file.text"), id)
     \/ \E text \in Texts :
          LET o == FileParsed(load[l].name, text) IN
          IF o.ok
          THEN /\ load' = [load EXCEPT ![l].pc = "bundling", ![l].text = text,
                                       ![l].tree = o.specObject,
                                       ![l].wasVersionOverridden = o.wasVersionOverridden,
                                       ![l].originalVersion =
                                          OriginalVersionFromFile(load[l].name, text)]
               /\ UNCHANGED store
          ELSE \E id \in NewSpecIds :
                 /\ store' = Finish(store, l, o, id)
                 /\ load' = [load EXCEPT ![l].pc = "done", ![l].text = text,
                                         ![l].result = IF InTry(o.site) THEN "failed" ELSE "escaped",
                                         ![l].site = o.site,
                                         ![l].order = Cardinality({ k \in LoadIds : load[k].pc = "done" }) + 1,
                                         ![l].toasts = Toasts("file", o)]
  /\ UNCHANGED << norm, view, sim, panel >>

\* onSubmit, lines 134-192: the file branch, from the outcome of
\* SwaggerParser.bundle to the end.
onSubmitBundled(l) ==
  /\ load[l].pc = "bundling"
  /\ \E outcome \in LibOutcomes(load[l].tree) :
       \E id \in NewSpecIds :
         Ended(l, FileBundled(load[l].name, load[l].tree, load[l].wasVersionOverridden,
                              load[l].originalVersion, outcome), id)
  /\ UNCHANGED << norm, view, sim, panel >>

Next ==
  \E l \in LoadIds :
    \/ handleSubmit(l)
    \/ onSubmit(l)
    \/ RoutePOST(l)
    \/ Part001POST(l)
    \/ ProxyUnavailable(l)
    \/ onSubmitResponse(l)
    \/ onSubmitFileText(l)
    \/ onSubmitBundled(l)

Spec == Init /\ [][Next]_vars

-----------------------------------------------------------------------------
(* One import by URL, over a wider range of URLs and answers *)

\* A URL of 183 characters.
LongUrl ==
  << T("https:", 6), T("/", 1), T("/", 1), T("example.com", 11), T("/", 1),
     T("long-path", 150), T("/", 1), T("openapi.yaml", 12) >>

\* A URL that ends with "/".
SlashUrl ==
  << T("https:", 6), T("/", 1), T("/", 1), T("example.com", 11), T("/", 1),
     T("api", 3), T("/", 1) >>

UrlsWide == { ExampleUrl, LongUrl, SlashUrl }

\* Documents whose `openapi` is an array holding the version string.
TextsWide ==
  Texts \cup
  { Text("json", Obj(Absent, ArrField(VersionStr(3, 0, 4)), 1)),
    Text("json", Obj(Absent, ArrField(VersionStr(3, 0, 10)), 1)) }

ErrorStatuses == {404, 500}
ContentTypes == {"null", "text/html", "application/json", "application/octet-stream"}
ErrorBodies == {"empty", "html", "jsonMessage", "jsonError", "jsonOther", "text"}

AnswersWide ==
  { Answer("ok", 200, "null", "empty", t) : t \in TextsWide } \cup
  { Answer("reject", 0, "null", "empty", NoInput) } \cup
  { Answer("ok", status, ctype, body, NoInput) :
      status \in ErrorStatuses, ctype \in ContentTypes, body \in ErrorBodies }

handleSubmitUrl == Submitted(1, UrlsWide, {})
RoutePOSTWide == RouteServes(1, AnswersWide)
Part001POSTWide == Part001Serves(1, AnswersWide)

NextUrl ==
  \/ handleSubmitUrl
  \/ onSubmit(1)
  \/ RoutePOSTWide
  \/ Part001POSTWide
  \/ onSubmitResponse(1)

SpecUrl == Init /\ [][NextUrl]_vars

-----------------------------------------------------------------------------
(* The Version Normalizer on its own *)

\* The documents the normalizer is applied to: every "3.0.n" and "3.1.n" up
\* to MaxPatch, Swagger 2.0 and 2.1 documents, a document with no version
\* key, and one whose `openapi` is a number.
NormDocs ==
  { Doc(VersionStr(3, minor, n)) : minor \in 0..1, n \in 0..MaxPatch } \cup
  { SwaggerDoc, Obj(StrField(<< 50, 46, 49 >>), Absent, 1), KeylessDoc,
    Obj(Absent, NumField, 1) }

InitNorm ==
  /\ store = EmptyStore
  /\ load = [l \in LoadIds |-> IdleLoad]
  /\ norm \in { [NormIdle EXCEPT !.phase = "input", !.path = p, !.doc = d] :
                  p \in Paths, d \in NormDocs }
  /\ view = ViewIdle
  /\ sim = SimIdle
  /\ panel = PanelIdle

\* The normalizer of norm.path runs on norm.doc.
ApplyNormalize ==
  /\ norm.phase = "input"
  /\ norm' = [norm EXCEPT !.phase = "done", !.out = Normalize(norm.path, norm.doc)]
  /\ UNCHANGED << store, load, view, sim, panel >>

NextNorm == ApplyNormalize

SpecNorm == InitNorm /\ [][NextNorm]_vars

-----------------------------------------------------------------------------
(* The dependency view on its own *)

\* The two prefixes of lines 99 and 102.
V3Prefix == "#/components/schemas/"
V2Prefix == "#/definitions/"

\* { "$ref": "<prefix><name>" }
Ref(prefix, name) == ObjValue(<< << "$ref", StrValue(prefix, name) >> >>)

\* { "type": "object" }
Plain == ObjValue(<< << "type", StrValue("", "object") >> >>)

\* { "type": "object", "properties": { "first": x, "second": y } }
Props(x, y) ==
  ObjValue(<< << "type", StrValue("", "object") >>,
              << "properties", ObjValue(<< << "first", x >>, << "second", y >> >>) >> >>)

\* { "properties": { "$ref": x } }: a property that is itself named `$ref`.
RefNamedProperty(x) ==
  ObjValue(<< << "properties", ObjValue(<< << "$ref", x >> >>) >> >>)

\* The schemas drawn for a document whose references start with `own`;
\* "Z" is a name no container defines, `other` the prefix of the other
\* version.
Bodies(own, other) ==
  { Plain, Ref(own, "A"), Ref(own, "B"), Ref(own, "Z"), Ref(other, "B"),
    RefNamedProperty(Ref(own, "B")) } \cup
  { Props(x, y) : x, y \in { Plain, Ref(own, "A"), Ref(own, "B") } }

\* The containers drawn: none, an empty one, one schema, two schemas.
Containers(own, other) ==
  { NoContainer, Container(<< >>) } \cup
  { Container(<< << "A", a >> >>) : a \in Bodies(own, other) } \cup
  { Container(<< << "A", a >>, << "B", b >> >>) : a, b \in Bodies(own, other) }

\* The container a document of the other version would read.
OtherContainers == { NoContainer, Container(<< << "D", Plain >> >>) }

\* The paths drawn: none; one operation with one response schema; one with
\* a request and a response schema; one with two response schemas, different
\* or the same; a path item key that is no method; an operation without
\* `responses`.
PathSets(own) ==
  { << >>,
    << << "/pets", << << "post", Operation(TRUE, << Ref(own, "A") >>, << Ref(own, "B") >>) >> >> >> >>,
    << << "/pets", << << "get", Operation(TRUE, << >>, << Ref(own, "A"), Ref(own, "B") >>) >> >> >> >>,
    << << "/pets", << << "get", Operation(TRUE, << >>, << Ref(own, "B"), Ref(own, "B") >>) >> >> >> >>,
    << << "/pets", << << "parameters", Operation(TRUE, << >>, << Ref(own, "B") >>) >> >> >> >>,
    << << "/pets", << << "get", Operation(FALSE, << Ref(own, "B") >>, << >>) >> >> >> >> } \cup
  { << << "/pets", << << "get", Operation(TRUE, << >>, << r >>) >> >> >> >> :
      r \in { Ref(own, "A"), Ref(own, "B"), Ref(own, "Z"),
              Props(Ref(own, "A"), Ref(own, "B")),
              Props(Ref(own, "B"), Ref(own, "B")) } }

\* The documents drawn: OpenAPI 3, Swagger 2, and two the viewer does not
\* support (no version key; `openapi` read as a number).
GraphDocs ==
  { [Obj(Absent, StrField(Str303), GraphBody(c, o, p)) EXCEPT !.stage = "bundled"] :
      c \in Containers(V3Prefix, V2Prefix), o \in OtherContainers, p \in PathSets(V3Prefix) } \cup
  { [Obj(StrField(Str20), Absent, GraphBody(o, c, p)) EXCEPT !.stage = "bundled"] :
      c \in Containers(V2Prefix, V3Prefix), o \in OtherContainers, p \in PathSets(V2Prefix) } \cup
  { [Obj(Absent, f, GraphBody(Container(<< << "A", Plain >> >>), NoContainer, << >>))
       EXCEPT !.stage = "bundled"] : f \in { Absent, NumField } }

\* The stores the viewer is rendered on: the store a successful load of a
\* document left, the empty store, and either with an error message.
LoadedStore(d) ==
  setSpec(EmptyStore, 1, d, Text("json", d), UrlFileName(ExampleUrl), [now |-> 1, rnd |-> 1])
GraphStores == { LoadedStore(d) : d \in GraphDocs }
FailedStores ==
  { setError(EmptyStore, << T("Failed to fetch spec.", 21) >>) }
FailedLoadedStores ==
  { setError(LoadedStore([Obj(Absent, StrField(Str303),
                              GraphBody(Container(<< << "A", Plain >> >>), NoContainer, << >>))
                            EXCEPT !.stage = "bundled"]),
             << T("Failed to fetch spec.", 21) >>) }

InitGraph ==
  /\ \/ store \in GraphStores
     \/ store = EmptyStore
     \/ store \in FailedStores
     \/ store \in FailedLoadedStores
  /\ load = [l \in LoadIds |-> IdleLoad]
  /\ norm = NormIdle
  /\ view = ViewIdle
  /\ sim = SimIdle
  /\ panel = PanelIdle

\* A variant of the render that resets the store's error through setError:
\* the variant C24 tells apart from the code, which calls no setter.
RenderDependencyGraphViewerSetting ==
  /\ view = ViewIdle
  /\ view' = DependencyGraphViewer(store)
  /\ store' = setLoading(setError(store, << >>), TRUE)
  /\ UNCHANGED << load, norm, sim, panel >>

\* The viewer is rendered on the store for the first time.
RenderDependencyGraphViewer ==
  /\ view = ViewIdle
  /\ view' = DependencyGraphViewer(store)
  /\ UNCHANGED << store, load, norm, sim, panel >>

\* The viewer is rendered again on the same store: the function body runs
\* again from line 39.
RerenderDependencyGraphViewer ==
  /\ view # ViewIdle
  /\ view' = DependencyGraphViewer(store)
  /\ UNCHANGED << store, load, norm, sim, panel >>

NextGraph ==
  \/ RenderDependencyGraphViewer
  \/ RerenderDependencyGraphViewer

SpecGraph == InitGraph /\ [][NextGraph]_vars

-----------------------------------------------------------------------------
(* The dashboard's simulation on its own *)

\* The document the dashboard's store holds.
SimDoc ==
  [Obj(Absent, StrField(Str303),
       GraphBody(Container(<< << "A", Plain >> >>), NoContainer, << >>))
     EXCEPT !.stage = "bundled"]

InitSim ==
  /\ store = LoadedStore(SimDoc)
  /\ load = [l \in LoadIds |-> IdleLoad]
  /\ norm = NormIdle
  /\ view = ViewIdle
  /\ sim = SimIdle
  /\ panel = PanelIdle

\* A click on the start button; the dashboard has settled, as it has before
\* every event.
ClickToggleSimulation ==
  /\ sim.mounted /\ ~CleanupPending(sim) /\ ControlsRendered(store)
  /\ sim.created < MaxTimers
  /\ sim' = handleToggleSimulation(sim, store)
  /\ UNCHANGED << store, load, norm, view, panel >>

\* A click on the reset button.
ClickResetSimulation ==
  /\ sim.mounted /\ ~CleanupPending(sim) /\ ControlsRendered(store)
  /\ sim' = handleResetSimulation(sim)
  /\ UNCHANGED << store, load, norm, view, panel >>

\* A scheduled interval fires.
IntervalFires ==
  /\ sim.mounted /\ ~CleanupPending(sim)
  /\ \E t \in sim.timers : sim' = tick(sim, t)
  /\ UNCHANGED << store, load, norm, view, panel >>

\* The effects of the render that followed a change of simulationIntervalId.
RunCleanupEffect ==
  /\ CleanupPending(sim)
  /\ sim' = CleanupEffect(sim)
  /\ UNCHANGED << store, load, norm, view, panel >>

\* A load elsewhere replaced the document: the effect of lines 368-378 runs.
SpecReplaced ==
  /\ sim.mounted /\ ~CleanupPending(sim)
  /\ \E id \in { [now |-> 1, rnd |-> 1], [now |-> 1, rnd |-> 2] } \ { store.activeSpecId } :
       store' = setSpec(store, 1, SimDoc, Text("json", SimDoc), UrlFileName(ExampleUrl), id)
  /\ sim' = SpecEffect(sim)
  /\ UNCHANGED << load, norm, view, panel >>

\* A load elsewhere failed: the store's error is set, the document stays, and
\* the dashboard renders the error (line 523) in place of its controls.
SpecFailed ==
  /\ sim.mounted /\ ~CleanupPending(sim)
  /\ store.error = << >>
  /\ store' = setError(store, << T("Failed to fetch spec.", 21) >>)
  /\ UNCHANGED << load, norm, view, sim, panel >>

\* The user leaves the dashboard's page.
UnmountDashboard ==
  /\ sim.mounted /\ ~CleanupPending(sim)
  /\ sim' = Unmounted(sim)
  /\ UNCHANGED << store, load, norm, view, panel >>

\* The user comes back: a new dashboard, on the store as it is.
MountDashboard ==
  /\ ~sim.mounted
  /\ sim' = [SimIdle EXCEPT !.timers = sim.timers, !.created = sim.created]
  /\ UNCHANGED << store, load, norm, view, panel >>

NextSim ==
  \/ ClickToggleSimulation
  \/ ClickResetSimulation
  \/ IntervalFires
  \/ RunCleanupEffect
  \/ SpecReplaced
  \/ SpecFailed
  \/ UnmountDashboard
  \/ MountDashboard

SpecSim == InitSim /\ [][NextSim]_vars

-----------------------------------------------------------------------------
(* The compliance view next to the loads *)

\* A click on "Start Compliance Check".
SubmitCheck ==
  /\ CanSubmitCheck(store, panel)
  /\ panel' = onSubmitCheck(store, panel)
  /\ UNCHANGED << store, load, norm, view, sim >>

\* checkApiCompliance returns.
CheckReturns ==
  /\ panel.request # NoRequest
  /\ panel' = onCheckResult(panel)
  /\ UNCHANGED << store, load, norm, view, sim >>

\* checkApiCompliance throws.
CheckThrows ==
  /\ panel.request # NoRequest
  /\ panel' = onCheckError(panel)
  /\ UNCHANGED << store, load, norm, view, sim >>

NextViews ==
  \/ Next
  \/ SubmitCheck
  \/ CheckReturns
  \/ CheckThrows

SpecViews == Init /\ [][NextViews]_vars

-----------------------------------------------------------------------------
(* Claims *)

\* The `openapi` strings "3.0.n" with n from lo to hi.
Versions30(lo, hi) == { VersionStr(3, 0, n) : n \in lo..hi }

\* C2: for every version string 3.0.n with n from 4 to 99, one-digit and
\* two-digit n alike, the normalizer of each path rewrites `openapi` to 3.0.3
\* and reports versionOverridden = true.
C2_EveryPatchAbove3IsOverridden ==
  ( /\ norm.phase = "done"
    /\ norm.doc.openapi.t = "str"
    /\ norm.doc.openapi.s \in Versions30(4, 99) )
  => /\ norm.out.doc.openapi = StrField(Str303)
     /\ norm.out.versionOverridden

\* The documents of C3: OpenAPI 3.0.0 to 3.0.3, any 3.1.x, Swagger 2.x, or no
\* `openapi` field.
C3_Case(doc) ==
  \/ doc.openapi.t = "absent"
  \/ Truthy(doc.swagger) /\ doc.swagger.t = "str" /\ doc.swagger.s[1] = 50
  \/ /\ doc.openapi.t = "str"
     /\ \/ doc.openapi.s \in Versions30(0, 3)
        \/ StartsWith(doc.openapi.s, << 51, 46, 49, 46 >>)

\* C3: for a document whose version is 3.0.0 to 3.0.3, any 3.1.x, Swagger
\* 2.x, or whose `openapi` field is absent, the normalizer of each path leaves
\* the version field as it was and versionOverridden is false.
C3_SupportedVersionsPassUnchanged ==
  ( norm.phase = "done" /\ C3_Case(norm.doc) )
  => /\ norm.out.doc.openapi = norm.doc.openapi
     /\ norm.out.doc.swagger = norm.doc.swagger
     /\ ~norm.out.versionOverridden

\* C3 witness: the normalizer has run on a 3.0.3 document of an upload, or on
\* a 3.1.x document of the proxy.
C3_Witness ==
  /\ norm.phase = "done"
  /\ \/ norm.path = "file" /\ norm.doc.openapi = StrField(Str303)
     \/ norm.path = "route" /\ norm.doc.openapi = StrField(VersionStr(3, 1, 0))


\* Load l is past the start of onSubmit and has not ended.
InFlight(l) == load[l].pc \in {"fetching", "responded", "readingFile", "bundling"}

\* This step ends load l with the given result.
Ends(l, result) ==
  load[l].pc # "done" /\ load'[l].pc = "done" /\ load'[l].result = result

\* This step ends load l with a failure of the validate/bundle step: the
\* bundler threw in the file branch, or the proxy answered with the error of
\* a validation it had attempted.
EndsInValidationFailure(l) ==
  /\ Ends(l, "failed")
  /\ \/ load'[l].site = "SwaggerParser.bundle"
     \/ load[l].type = "url" /\ load[l].response.validations >= 1

\* C1: in every reachable state the store's document is absent or is the
\* value a successful validate/bundle step returned (never the raw parsed or
\* the merely version-normalized tree), and a step in which validation or
\* bundling fails leaves the store's document as it was and puts a message in
\* `error`.
C1_StoreHoldsOnlyValidatedDocuments ==
  /\ [](store.spec = NoDoc \/ store.spec.stage = "bundled")
  /\ [][ \A l \in LoadIds :
           EndsInValidationFailure(l)
           => /\ store'.spec = store.spec
              /\ store'.by = store.by
              /\ store'.error # << >> ]_vars

\* C1 witness: a load has failed in the bundler, a document loaded before it
\* is still in the store, and `error` holds a message.
C1_Witness ==
  \E l \in LoadIds :
    /\ load[l].result = "failed"
    /\ load[l].site = "SwaggerParser.bundle"
    /\ store.spec.stage = "bundled"
    /\ store.by.spec # l /\ store.by.spec # 0
    /\ store.error # << >>

\* C4: when a load fails, the store ends with loading = false and a non-empty
\* error, and document, raw text, name and id are exactly what they were
\* before that load started.
C4_FailedLoadRestoresWhatItFound ==
  [][ \A l \in LoadIds :
        Ends(l, "failed")
        => /\ ~store'.isLoading
           /\ store'.error # << >>
           /\ Loaded(store') = load[l].before ]_vars

\* C5: a load started while an earlier one is in flight wins: when load a
\* started before load b and both succeeded, a's result arriving after b's,
\* the store does not hold a's result.
C5_LaterLoadWins ==
  \A a, b \in LoadIds :
    ( /\ a < b
      /\ load[a].result = "ok" /\ load[b].result = "ok"
      /\ load[a].order > load[b].order )
    => /\ store.by.spec # a
       /\ store.by.rawSpec # a
       /\ store.by.fileName # a
       /\ store.by.activeSpecId # a

\* C6: after a load succeeds, document, raw text, name and id in the store
\* all come from that one load and `error` is cleared, whatever other loads
\* started or failed meanwhile; the four fields never come from different
\* loads.
C6_SuccessReplacesAllFourTogether ==
  /\ [](/\ store.by.rawSpec = store.by.spec
        /\ store.by.fileName = store.by.spec
        /\ store.by.activeSpecId = store.by.spec)
  /\ [][ \A l \in LoadIds :
           Ends(l, "ok")
           => /\ store'.by = [spec |-> l, rawSpec |-> l, fileName |-> l, activeSpecId |-> l]
              /\ store'.spec.stage = "bundled"
              /\ store'.rawSpec = YAMLdump(store'.spec)
              /\ store'.fileName = IF load[l].type = "url" THEN UrlFileName(load[l].url)
                                   ELSE load[l].name
              /\ store'.fileName # NoName
              /\ store'.error = << >> ]_vars

\* C6 witness: a load has succeeded after a load that started later than it
\* had failed, and the store holds its four fields and no error.
C6_Witness ==
  \E a, b \in LoadIds :
    /\ a < b
    /\ load[a].result = "ok" /\ load[b].result = "failed"
    /\ load[a].order > load[b].order
    /\ store.by.spec = a /\ store.by.fileName = a
    /\ store.error = << >>

\* C7: for as long as a load is in progress the store's loading flag is true
\* and the document in the store is not emptied, also when two loads overlap
\* and the first of them ends.
C7_LoadingWhileAnyLoadInFlight ==
  /\ []( (\E l \in LoadIds : InFlight(l)) => store.isLoading )
  /\ [][ (\E l \in LoadIds : InFlight(l)) /\ store.spec # NoDoc
         => store'.spec # NoDoc ]_vars


\* C8: every ingestion error is caught inside the load operation and the
\* proxy: no load ends with an exception leaving onSubmit, every error answer
\* of the proxy is a JSON body with a message, and a load that ends without
\* success writes one non-empty message to the store's `error` (and shows it
\* in one toast) before it clears `isLoading`.
C8_NoIngestionErrorEscapes ==
  /\ [](\A l \in LoadIds :
          /\ load[l].result # "escaped"
          /\ ( load[l].impl \in {"route", "part_001"} /\ ~IsOk(load[l].response.status) )
             => load[l].response.page = "none" /\ load[l].response.error # << >>)
  /\ [][ \A l \in LoadIds :
           ( load[l].pc # "done" /\ load'[l].pc = "done" /\ load'[l].result # "ok" )
           => /\ store'.error # << >>
              /\ ~store'.isLoading
              /\ load'[l].toasts = << << "Error Processing Specification", "destructive" >> >> ]_vars

\* C8 witness: a load has ended in the catch block on the TypeError of reading
\* `openapi` from a parse result that is not an object, and another on the
\* error answer of the proxy.
C8_Witness ==
  /\ \E l \in LoadIds :
       /\ load[l].result = "failed"
       /\ load[l].site = "parsedContentForFile.openapi"
       /\ store.error # << >>
  /\ \E l \in LoadIds :
       /\ load[l].result = "failed"
       /\ load[l].site = "response.ok"
       /\ load[l].impl = "route"

\* Some parser reads the text, and no parser reads it as an object with a
\* `swagger` or `openapi` key.
ParsesToUnacceptable(text) ==
  /\ YAMLload(text).ok \/ JSONparse(text).ok
  /\ ~(YAMLload(text).ok /\ Acceptable(YAMLload(text).v))
  /\ ~(JSONparse(text).ok /\ Acceptable(JSONparse(text).v))

\* C9: a text that parses to a value that is not an object, or to an object
\* with neither a `swagger` nor an `openapi` key, is rejected on the URL path
\* and on the file path: the load fails (on the URL path with the proxy's
\* parse error) and setSpec is never called for it.
C9_UnacceptableDocumentIsRejected ==
  \A l \in LoadIds :
    ( load[l].pc = "done" /\ ParsesToUnacceptable(load[l].text) )
    => /\ load[l].result = "failed"
       /\ store.by.spec # l
       /\ load[l].type = "url"
          => StartsWithPhrase(load[l].response.error, "Failed to parse specification")

\* C10: the format detector of the proxy tries YAML first and rejects a text
\* only if neither attempt succeeds: whenever the YAML attempt does not give
\* an acceptable object (an unacceptable value, or an exception of the YAML
\* parser), JSON.parse is attempted, and a text whose JSON parse is acceptable
\* is not rejected as unparseable.
C10_JsonAttemptedWheneverYamlFails ==
  \A l \in LoadIds :
    ( /\ load[l].impl \in {"route", "part_001"}
      /\ load[l].pc \in {"responded", "done"}
      /\ load[l].text.form # "none" )
    => /\ ~(YAMLload(load[l].text).ok /\ Acceptable(YAMLload(load[l].text).v))
          => load[l].response.jsonAttempted
       /\ ( JSONparse(load[l].text).ok /\ Acceptable(JSONparse(load[l].text).v) )
          => ~StartsWithPhrase(load[l].response.error, "Failed to parse specification")

\* C11: for an uploaded file the extension of the name only selects the
\* parser tried first: when that parser fails the other one is tried before
\* the load is failed, so a text that YAML.load or JSON.parse reads as an
\* acceptable document does not fail in the parser, whatever the name.
C11_ExtensionOnlyOrdersTheParsers ==
  \A l \in LoadIds :
    ( /\ load[l].type = "file" /\ load[l].pc = "done"
      /\ \/ YAMLload(load[l].text).ok /\ Acceptable(YAMLload(load[l].text).v)
         \/ JSONparse(load[l].text).ok /\ Acceptable(JSONparse(load[l].text).v) )
    => load[l].site \notin {"YAML.load", "JSON.parse(file)"}

\* The parser failures a parse error of the proxy can quote.
YamlFailures ==
  {"YAMLException", "Parsed YAML is not a valid OpenAPI object, trying JSON."}
JsonFailures ==
  {"SyntaxError", "Parsed JSON is not a valid OpenAPI object."}

\* C12: when neither the YAML nor the JSON attempt gives an acceptable
\* document, the parse error of the proxy carries the message of the YAML
\* failure and the message of the JSON failure.
C12_ParseErrorCarriesBothMessages ==
  \A l \in LoadIds :
    ( /\ load[l].impl \in {"route", "part_001"}
      /\ load[l].pc \in {"responded", "done"}
      /\ StartsWithPhrase(load[l].response.error, "Failed to parse specification") )
    => /\ \E i \in 1..Len(load[l].response.error) :
            load[l].response.error[i].s \in YamlFailures
       /\ \E i \in 1..Len(load[l].response.error) :
            load[l].response.error[i].s \in JsonFailures

\* The tree the proxy serving load l validated first.
FirstTree(l) ==
  IF load[l].impl = "route" THEN RouteTree(load[l].url, load[l].answer)
  ELSE Part001Tree(load[l].url, load[l].answer)

\* The normalizer of the proxy serving load l overrode the version.
NormalizerOverrode(l) ==
  FirstTree(l).openapi # ( IF load[l].impl = "route"
                           THEN ParseSpecRoute(load[l].url, load[l].text).v.openapi
                           ELSE ParseSpecPart001(load[l].url, load[l].text).v.openapi )

\* C13: the proxy attempts validation at most twice per request; a second
\* attempt is made only when the first failed with an unsupported-version
\* error naming a 3.0.x version above 3.0.3 and the normalizer had not
\* overridden the version; the downgrade to 3.0.3 is applied before the retry
\* (a document returned by the retry reads 3.0.3, versionOverridden true), and
\* a failed retry ends the request with an error.
C13_ValidationAttemptedAtMostTwice ==
  \A l \in LoadIds :
    ( load[l].impl \in {"route", "part_001"} /\ load[l].pc \in {"responded", "done"} )
    => /\ load[l].response.validations <= 2
       /\ Len(load[l].attempts) = load[l].response.validations
       /\ load[l].response.validations = 2
          => /\ load[l].attempts[1] = "unsupported"
             /\ LibError(FirstTree(l), "unsupported").ver \in Versions30(4, MaxPatch)
             /\ ~NormalizerOverrode(l)
             /\ load[l].attempts[2] = "ok"
                => /\ load[l].response.status = 200
                   /\ load[l].response.specObject.openapi = StrField(Str303)
                   /\ load[l].response.versionOverridden
             /\ load[l].attempts[2] # "ok"
                => /\ load[l].response.status = 500
                   /\ load[l].response.error # << >>

\* C13 witness: a request was validated twice and the retry failed.
C13_Witness ==
  \E l \in LoadIds :
    /\ load[l].impl = "part_001"
    /\ load[l].pc = "done"
    /\ load[l].attempts = << "unsupported", "invalid" >>
    /\ load[l].result = "failed"

\* The texts by which a message states that the version was overridden to
\* 3.0.3 before the attempt that failed.
OverrideTexts ==
  { " even after overriding version to 3.0.3: ",
    "Failed to bundle after overriding file version from " }

\* The message states the override and ends with the library's message.
OverridePrefixed(message, libMessage) ==
  /\ \E i \in 1..Len(message) : message[i].s \in OverrideTexts /\ ~message[i].cut
  /\ Len(message) > Len(libMessage)
  /\ SubSeq(message, Len(message) - Len(libMessage) + 1, Len(message)) = libMessage

\* C14: whenever validation or bundling fails after a version override to
\* 3.0.3 has been applied (by the normalizer or the retry of the proxy, or to
\* an uploaded file), the error that reaches the store is the failing
\* attempt's error prefixed with text stating the override to 3.0.3.
C14_FailureAfterOverrideSaysSo ==
  [][ \A l \in LoadIds :
        Ends(l, "failed")
        => /\ ( /\ load[l].pc = "bundling" /\ load[l].wasVersionOverridden )
              => \E outcome \in LibOutcomes(load[l].tree) \ {"ok"} :
                   OverridePrefixed(store'.error, LibError(load[l].tree, outcome).message)
           /\ ( /\ load[l].impl \in {"route", "part_001"}
                /\ load[l].response.validations >= 1
                /\ NormalizerOverrode(l) \/ load[l].response.validations = 2 )
              => \E outcome \in {"invalid", "unsupported", "notDefinition"} :
                   OverridePrefixed(store'.error,
                                    LibError(RetryTree(FirstTree(l)), outcome).message) ]_vars

\* The message names the status 404; the message holds a piece of the raw
\* body of the external server's answer.
Mentions404(message) ==
  \E i \in 1..Len(message) : message[i].s = "404" /\ ~message[i].cut
HoldsRawBody(message, body) ==
  \E i \in 1..Len(message) : message[i].s = body

\* C15: when the external server answers with status 404 and an HTML body,
\* whatever content type it declares and however long the URL, the load fails
\* and the message written to the store's error names "404" and holds no
\* part of the HTML body.
C15_NotFoundHtmlGivesCleanMessage ==
  [][ \A l \in LoadIds :
        ( /\ load[l].pc # "done" /\ load'[l].pc = "done"
          /\ load[l].impl \in {"route", "part_001"}
          /\ load[l].answer.net = "ok"
          /\ load[l].answer.status = 404
          /\ load[l].answer.body = "html" )
        => /\ load'[l].result = "failed"
           /\ Mentions404(store'.error)
           /\ ~HoldsRawBody(store'.error, "html") ]_vars

\* The error kind the proxy chooses for a non-2xx answer: the branch of
\* lines 31-62 of route.ts (25-49 of part_001) that builds the message.  An
\* answer that no branch recognizes counts as unrecognized content.
Kind(impl, a) ==
  CASE impl = "route" /\ a.status = 404 -> "not-found"
    [] a.ctype = "application/json" ->
         IF a.body \in {"jsonMessage", "jsonError"} THEN "json-error-body"
         ELSE "unrecognized-content"
    [] a.ctype = "text/html" -> "html-error-page"
    [] OTHER -> "unrecognized-content"

\* The message that reaches the store for a non-2xx answer.
StoreMessage(impl, url, a) ==
  ErrorMessage(UrlOutcome(url, IF impl = "route" THEN POST(url, a, "invalid")
                               ELSE POSTPart001(url, a, "invalid", "invalid")).err)

\* C16: every non-2xx answer of the external server is given one error kind
\* (not-found, HTML error page, JSON error body, unrecognized content), and
\* the kind is still distinguishable in the message that reaches the store:
\* no answer of another kind, for the same URL, gives the same message.
C16_ErrorKindStaysDistinguishable ==
  [][ \A l \in LoadIds :
        ( /\ load[l].pc # "done" /\ load'[l].pc = "done"
          /\ load[l].impl \in {"route", "part_001"}
          /\ load[l].answer.net = "ok"
          /\ ~IsOk(load[l].answer.status) )
        => /\ load'[l].result = "failed"
           /\ store'.error = StoreMessage(load[l].impl, load[l].url, load[l].answer)
           /\ \A a \in AnswersWide :
                ( /\ a.net = "ok" /\ ~IsOk(a.status)
                  /\ Kind(load[l].impl, a) # Kind(load[l].impl, load[l].answer) )
                => StoreMessage(load[l].impl, load[l].url, a) # store'.error ]_vars


\* The schemas of the container the viewer reads, by name.
GraphSchemas ==
  LET entries == SchemasContainer(store.spec).entries
  IN { [name |-> entries[i][1], schema |-> entries[i][2]] : i \in 1..Len(entries) }

\* The number of `$ref` strings in a value, at any depth, that are the
\* prefix followed by the name.
RECURSIVE RefCount(_, _, _)
RECURSIVE RefCountKeys(_, _, _)
RefCountKeys(kv, prefix, name) ==
  IF kv = << >> THEN 0
  ELSE (IF Head(kv)[1] = "$ref" /\ Head(kv)[2].t = "str"
        THEN (IF Head(kv)[2].prefix = prefix /\ Head(kv)[2].rest = name THEN 1 ELSE 0)
        ELSE RefCount(Head(kv)[2], prefix, name))
       + RefCountKeys(Tail(kv), prefix, name)
RefCount(value, prefix, name) ==
  IF value.t = "obj" THEN RefCountKeys(value.kv, prefix, name) ELSE 0

\* The value references the schema of that name, in the document shown.
References(value, name) == RefCount(value, RefPrefix(store.spec), name) > 0

\* The operations of the document shown: the method keys of its path items
\* whose value has `responses`, with their path and method.
GraphOperations ==
  LET paths == store.spec.body.paths
      all == UNION { { [path |-> paths[i][1], method |-> paths[i][2][k][1],
                        operation |-> paths[i][2][k][2]] : k \in 1..Len(paths[i][2]) } :
                     i \in 1..Len(paths) }
  IN { o \in all : IsMethod(o.method) /\ o.operation.hasResponses }

\* The entry of `operations` for a response of the operation.
ResponseUsage(o) == [path |-> o.path, method |-> o.method, type |-> "response"]

\* The case of C17: schema a references schema b, b does not reference a,
\* a response schema of operation o is b, and none references a.
C17_Case(a, b, o) ==
  /\ a.name # b.name
  /\ References(a.schema, b.name)
  /\ ~References(b.schema, a.name)
  /\ \E i \in 1..Len(o.operation.responses) :
       o.operation.responses[i] = Ref(RefPrefix(store.spec), b.name)
  /\ \A i \in 1..Len(o.operation.responses) :
       ~References(o.operation.responses[i], a.name)

\* C17: when schema A references schema B and the response schema of an
\* operation is B, the record of B lists A in referencedBySchemas and the
\* operation's (path, method, response) in operations, and the record of A
\* lists neither B nor that operation: no edge is recorded the other way.
C17_EdgesPointFromReferencerToReferenced ==
  view.shows = "graph" =>
    \A a, b \in GraphSchemas : \A o \in GraphOperations :
      C17_Case(a, b, o) =>
        /\ InSeq(view.map[b.name].referencedBySchemas, a.name)
        /\ InSeq(view.map[b.name].operations, ResponseUsage(o))
        /\ ~InSeq(view.map[a.name].referencedBySchemas, b.name)
        /\ ~InSeq(view.map[a.name].operations, ResponseUsage(o))

\* A graph is shown for a document in which A references B, B does not
\* reference A, and an operation responds with B.
C17_Witness ==
  /\ view.shows = "graph"
  /\ \E a, b \in GraphSchemas : \E o \in GraphOperations : C17_Case(a, b, o)


\* C18: no schema is listed in its own referencedBySchemas, even when its
\* body holds a `$ref` to itself.
C18_NoSchemaReferencedByItself ==
  view.shows = "graph" =>
    \A x \in DOMAIN view.map : ~InSeq(view.map[x].referencedBySchemas, x)

\* C19: the referencedBySchemas of every schema lists each referencing
\* schema at most once, however many `$ref` to it the referencing schema
\* holds.
C19_EachReferencerListedOnce ==
  view.shows = "graph" =>
    \A x \in DOMAIN view.map :
      LET by == view.map[x].referencedBySchemas
      IN \A i, j \in 1..Len(by) : by[i] = by[j] => i = j

\* A graph is shown for a document in which one schema holds two `$ref` to
\* another, which lists it.
C19_Witness ==
  /\ view.shows = "graph"
  /\ \E a, b \in GraphSchemas :
       /\ a.name # b.name
       /\ RefCount(a.schema, RefPrefix(store.spec), b.name) >= 2
       /\ InSeq(view.map[b.name].referencedBySchemas, a.name)

\* A name has no operation usage and no inbound reference in the document
\* shown.
Unused(name) ==
  /\ \A a \in GraphSchemas : ~References(a.schema, name)
  /\ \A o \in GraphOperations :
       /\ \A i \in 1..Len(o.operation.request) : ~References(o.operation.request[i], name)
       /\ \A i \in 1..Len(o.operation.responses) : ~References(o.operation.responses[i], name)

\* C20: the map has a record for exactly the names of the container
\* (components.schemas for v3, definitions for v2); a name without operation
\* usage and inbound reference has a record with two empty lists, and a
\* `$ref` to a name the container does not define adds no record.
C20_OneRecordPerContainerName ==
  view.shows = "graph" =>
    /\ DOMAIN view.map = { a.name : a \in GraphSchemas }
    /\ \A a \in GraphSchemas : Unused(a.name) => view.map[a.name] = EmptyUsage

\* A graph is shown for a document in which a schema references a name the
\* container does not define and a schema of the container is unused.
C20_Witness ==
  /\ view.shows = "graph"
  /\ \E a \in GraphSchemas : References(a.schema, "Z")
  /\ \E a \in GraphSchemas : Unused(a.name) /\ view.map[a.name] = EmptyUsage


\* Every method key of the path items of the document shown, with its path
\* and its value, whether or not the value has `responses`.
DocumentOperations ==
  LET paths == store.spec.body.paths
      all == UNION { { [path |-> paths[i][1], method |-> paths[i][2][k][1],
                        operation |-> paths[i][2][k][2]] : k \in 1..Len(paths[i][2]) } :
                     i \in 1..Len(paths) }
  IN { o \in all : IsMethod(o.method) }

\* The entry of `operations` for the request body of the operation.
RequestUsage(o) == [path |-> o.path, method |-> o.method, type |-> "requestBody"]

\* C21: for every operation of the document, a `$ref` to a defined schema in
\* its request body is recorded in that schema's operations with role
\* requestBody, and one in a response with role response, also when the
\* operation has a request body and no `responses`.
C21_EveryOperationIsScanned ==
  view.shows = "graph" =>
    \A o \in DocumentOperations : \A a \in GraphSchemas :
      /\ (\E i \in 1..Len(o.operation.request) : References(o.operation.request[i], a.name))
           => InSeq(view.map[a.name].operations, RequestUsage(o))
      /\ (\E i \in 1..Len(o.operation.responses) : References(o.operation.responses[i], a.name))
           => InSeq(view.map[a.name].operations, ResponseUsage(o))


OverrideTitles == { "Version Override (File)", "Success & Version Override (URL)" }

\* C23: a load that succeeds shows exactly one toast, which is not
\* destructive and is a version-override warning exactly when the load's
\* version was overridden (the plain success toast otherwise), and leaves
\* the store without an error.
C23_SuccessShowsOneToast ==
  [][ \A l \in LoadIds :
        (load[l].result # "ok" /\ load'[l].result = "ok") =>
          /\ Len(load'[l].toasts) = 1
          /\ load'[l].toasts[1][2] # "destructive"
          /\ (load'[l].toasts[1][1] \in OverrideTitles) <=> load'[l].wasVersionOverridden
          /\ (load'[l].toasts[1][1] = "Success") <=> ~load'[l].wasVersionOverridden
          /\ store'.error = << >> ]_vars

\* A load of a file and a load by URL have both succeeded with their version
\* overridden.
C23_Witness ==
  \E a, b \in LoadIds :
    /\ load[a].result = "ok" /\ load[a].wasVersionOverridden /\ load[a].type = "file"
    /\ load[b].result = "ok" /\ load[b].wasVersionOverridden /\ load[b].type = "url"


IsLastSegment(name, url) ==
  /\ \A i \in 1..Len(name) : name[i].s # "/"
  /\ Len(url) > Len(name)
  /\ url[Len(url) - Len(name)].s = "/"
  /\ SubSeq(url, Len(url) - Len(name) + 1, Len(url)) = name

\* C25: a successful import by URL stores a name that is the text of the URL
\* after its last "/", and is never empty: for a URL that ends with "/" the
\* fixed name "openapi-spec-from-url" is stored.
C25_UrlNameIsLastSegmentOrFallback ==
  [][ \A l \in LoadIds :
        (load[l].type = "url" /\ load[l].result # "ok" /\ load'[l].result = "ok") =>
          /\ store'.fileName # << >>
          /\ CharLen(store'.fileName) > 0
          /\ IF load[l].url[Len(load[l].url)].s = "/"
             THEN store'.fileName = << T("openapi-spec-from-url", 21) >>
             ELSE IsLastSegment(store'.fileName, load[l].url) ]_vars

\* An import of a URL that ends with "/" has succeeded.
C25_Witness ==
  \E l \in LoadIds :
    /\ load[l].type = "url" /\ load[l].result = "ok"
    /\ load[l].url = SlashUrl
    /\ store.fileName = << T("openapi-spec-from-url", 21) >>


\* C26: any two loads that succeeded stored different ids, also when both
\* read the same value of Date.now().
C26_IdsAreUniquePerLoad ==
  \A a, b \in LoadIds :
    (a # b /\ load[a].result = "ok" /\ load[b].result = "ok") => load[a].id # load[b].id


\* C28: the operations list of every schema holds each (path, method, role)
\* at most once, also when the schema is referenced several times in one
\* request body or response schema, or under several content types or status
\* codes of the operation.
C28_EachOperationUsageListedOnce ==
  view.shows = "graph" =>
    \A x \in DOMAIN view.map :
      LET ops == view.map[x].operations
      IN \A i, j \in 1..Len(ops) : ops[i] = ops[j] => i = j

\* C29: in the dashboard simulation simulationTimeElapsed stays within
\* 0..MAX_SIMULATION_SECONDS whatever is clicked and however often the
\* interval fires, and when it is MAX_SIMULATION_SECONDS the simulation is
\* marked not running.
C29_ElapsedStaysWithinTheMaximum ==
  /\ sim.simulationTimeElapsed \in 0..MAX_SIMULATION_SECONDS
  /\ sim.simulationTimeElapsed = MAX_SIMULATION_SECONDS => ~sim.isSimulating

\* A started simulation ticked up to the maximum, and its interval fired
\* once more.
C29_Witness ==
  /\ sim.simulationTimeElapsed = MAX_SIMULATION_SECONDS
  /\ sim.lastPoint = MAX_SIMULATION_SECONDS - 1
  /\ sim.timers # {}
  /\ ~sim.isSimulating

\* C30: at most one interval is scheduled at any time, and whenever the
\* dashboard has settled with the simulation marked not running, no interval
\* is scheduled, so that no tick appends to the metrics.
C30_NoIntervalUnlessRunning ==
  /\ Cardinality(sim.timers) <= 1
  /\ (~CleanupPending(sim) /\ ~sim.isSimulating) => sim.timers = {}

\* The compliance view sends checkApiCompliance only from a store without
\* error: the part of C27 on requests.
NoCheckSentUnderError ==
  [][ (panel'.request # NoRequest /\ panel.request = NoRequest) => store.error = << >> ]_vars

\* C27: while the store's error is set, the views show the error and nothing
\* derived from the document the store still holds: the dependency viewer
\* shows the error, the dashboard renders no controls, and the compliance
\* view renders neither its check form nor a report.
C27_ViewsShowTheErrorOnly ==
  store.error # << >> =>
    /\ DependencyGraphViewer(store).shows = "error"
    /\ ~ControlsRendered(store)
    /\ ~ApiComplianceCheckView(store, panel).checkForm
    /\ ApiComplianceCheckView(store, panel).report = NoResult

=============================================================================
